---- MODULE Spec2Model ----
(***************************************************************************)
(* Model of genmap's bridge-aware query rewriter                           *)
(* (src/src/genmap/rewrite/rewriter.py).                                   *)
(*                                                                         *)
(* Text is modelled as a sequence of tokens, each token a record with a    *)
(* field k naming its kind.  A token stands for a piece of text that none  *)
(* of the regular expressions of the rewriter can split.  Strings the code *)
(* inspects (IRIs, endpoint ids) are sequences of chunks, a chunk being    *)
(* "<", ">", " ", "http" or an inert piece of text.  A SPARQL term is a    *)
(* record [v, n]: v tells whether it starts with "?", n is what follows.   *)
(***************************************************************************)
EXTENDS Integers, Sequences, FiniteSets, TLC

VARIABLES
    query,        \* rewrite's argument query: a token sequence
    candidates,   \* rewrite's argument candidates, as passed by the caller
    endpoints,    \* rewrite's argument endpoints, as passed by the caller
    pc,           \* position inside rewrite
    ep_urls,      \* rewriter.py:418
    cand_map,     \* rewriter.py:419
    prologue,     \* rewriter.py:420
    body,         \* rewriter.py:420
    runs,         \* rewriter.py:422
    ri,           \* index of the run the loop of rewriter.py:430 handles next
    out_parts,    \* rewriter.py:427
    last,         \* rewriter.py:428
    seglog,       \* per handled run, the (segments, bridges) of rewriter.py:434
    minted,       \* per handled run, the aliases _fresh_var returned, in order
    out,          \* rewriter.py:463-466, the assembled text
    result,       \* the string rewrite returns
    parked,       \* the arguments and locals of the other call in flight, <<>> when none
    calls,        \* the calls of rewrite begun in this process
    history       \* the aliases _fresh_var returned in this process, all calls together

(* the arguments and locals of the call that is running *)
locals == <<query, candidates, endpoints, pc, ep_urls, cand_map, prologue, body,
            runs, ri, out_parts, last, seglog, minted, out, result>>

vars == <<locals, parked, calls, history>>

------------------------------------------------------------------------------
(* Generic helpers *)

Range(s) == {s[i] : i \in DOMAIN s}

Min(a, b) == IF a <= b THEN a ELSE b

SubSeqFrom(s, i) == SubSeq(s, i, Len(s))

RECURSIVE Flatten(_)
Flatten(ss) == IF ss = <<>> THEN <<>> ELSE Head(ss) \o Flatten(Tail(ss))

Count(s, kind) == Cardinality({i \in DOMAIN s : s[i].k = kind})

SetMin(S) == CHOOSE x \in S : \A y \in S : x <= y

SetMax(S) == CHOOSE x \in S : \A y \in S : y <= x

(* All sequences over S of length at most n *)
RECURSIVE SeqsUpTo(_, _)
SeqsUpTo(S, n) ==
    IF n = 0 THEN {<<>>}
    ELSE LET shorter == SeqsUpTo(S, n - 1)
         IN  shorter \cup {Append(s, x) : s \in {t \in shorter : Len(t) = n - 1}, x \in S}

------------------------------------------------------------------------------
(* Tokens *)

Kw      == [k |-> "kw"]          \* SELECT (or CONSTRUCT, ASK, DESCRIBE)
Sp      == [k |-> "sp"]          \* a blank or a tab
Nl      == [k |-> "nl"]          \* a line break
Lb      == [k |-> "lbrace"]      \* {
Rb      == [k |-> "rbrace"]      \* }
Dot     == [k |-> "dot"]         \* .
Opt     == [k |-> "optional"]    \* OPTIONAL
Union   == [k |-> "union"]       \* UNION
Txt(vs) == [k |-> "text", vars |-> vs]   \* other text, mentioning variables vs
Pfx(s)  == [k |-> "prefix", spaces |-> s] \* PREFIX ex: <iri>, iri with blanks or not
Gen(s, p, o, d) == [k |-> "gen", s |-> s, p |-> p, o |-> o, dot |-> d]
Cont(p, o, d)   == [k |-> "cont", p |-> p, o |-> o, dot |-> d]  \* ; p o  after a triple
PnGen(s, p, o)  == [k |-> "pngen", s |-> s, p |-> p, o |-> o]   \* ex:s p o .  a prefixed name as subject
Service(u)      == [k |-> "service", url |-> u]       \* SERVICE <u>
Line(s, pr, o)  == [k |-> "line", ls |-> s, pr |-> pr, lo |-> o]  \* s pr o .
SameAs(l, r)    == [k |-> "sameas", l |-> l, r |-> r] \* l owl:sameAs r
Bind(l, r)      == [k |-> "bind", l |-> l, r |-> r]   \* BIND(l AS r)

IsWs(t) == t.k \in {"sp", "nl"}

Var(n) == [v |-> TRUE, n |-> n]
Iri(n) == [v |-> FALSE, n |-> n]

(* str.lstrip() / str.rstrip() / str.strip() on token text *)
RECURSIVE LStrip(_)
LStrip(s) == IF s # <<>> /\ IsWs(Head(s)) THEN LStrip(Tail(s)) ELSE s

RECURSIVE RStrip(_)
RStrip(s) ==
    IF s # <<>> /\ IsWs(s[Len(s)]) THEN RStrip(SubSeq(s, 1, Len(s) - 1)) ELSE s

Strip(s) == LStrip(RStrip(s))

NumLb(s) == Count(s, "lbrace")
NumRb(s) == Count(s, "rbrace")

------------------------------------------------------------------------------
(* Chunk strings *)

RECURSIVE LStripChunks(_, _)
LStripChunks(s, cs) ==
    IF s # <<>> /\ Head(s) \in cs THEN LStripChunks(Tail(s), cs) ELSE s

RECURSIVE RStripChunks(_, _)
RStripChunks(s, cs) ==
    IF s # <<>> /\ s[Len(s)] \in cs
    THEN RStripChunks(SubSeq(s, 1, Len(s) - 1), cs) ELSE s

StripChunks(s, cs) == LStripChunks(RStripChunks(s, cs), cs)

NoBlanks(s) == SelectSeq(s, LAMBDA c : c # " ")

StartsWithHttp(s) == s # <<>> /\ Head(s) = "http"

(* rewriter.py:26-31 *)
_sanitize_iri(iri) ==
    LET t == StripChunks(iri, {" "})
    IN  IF Len(t) >= 1 /\ Head(t) = "<" /\ t[Len(t)] = ">"
        THEN <<"<">> \o NoBlanks(SubSeq(t, 2, Len(t) - 1)) \o <<">">>
        ELSE NoBlanks(t)

(* Python values as the adapters see them *)
PStr(s)  == [t |-> "str", s |-> s]
PNone    == [t |-> "none"]
PNum     == [t |-> "num"]
PDict(d) == [t |-> "dict", d |-> d]
PList(l) == [t |-> "list", l |-> l]

IsNonEmptyStr(x) == x.t = "str" /\ x.s # <<>>

Truthy(x) ==
    CASE x.t = "str"  -> x.s # <<>>
      [] x.t = "none" -> FALSE
      [] x.t = "num"  -> TRUE
      [] x.t = "dict" -> DOMAIN x.d # {}
      [] x.t = "list" -> x.l # <<>>

(* A dict whose iteration order the code never uses is a function; d.get(key) *)
DGet(d, key) == IF key \in DOMAIN d THEN d[key] ELSE PNone

(* A dict the code iterates is the sequence of its <<key, value>> items in     *)
(* insertion order, keys unique.                                               *)
ODKeys(d) == {d[i][1] : i \in DOMAIN d}

ODHas(d, key) == key \in ODKeys(d)

ODGet(d, key) ==
    IF ODHas(d, key)
    THEN d[CHOOSE i \in DOMAIN d : d[i][1] = key][2]
    ELSE PNone

(* d[key] = val: a present key keeps its place *)
ODSet(d, key, val) ==
    IF ODHas(d, key)
    THEN [i \in DOMAIN d |-> IF d[i][1] = key THEN <<key, val>> ELSE d[i]]
    ELSE Append(d, <<key, val>>)

IsODict(d) ==
    \A i, j \in DOMAIN d : d[i][1] = d[j][1] => i = j

------------------------------------------------------------------------------
(* CandidateMap / EndpointRegistry adapters *)

(* str(v) of rewriter.py:58 *)
StrOf(v) ==
    CASE v.t = "str"  -> v.s
      [] v.t = "none" -> <<"None">>
      [] v.t = "num"  -> <<"5">>
      [] OTHER        -> <<"[]">>

(* as if line 51 and the isinstance tests were not there: every value is kept *)
NormalizeVal_KeepsAll(val) ==
    CASE val.t = "dict" -> <<val.d>>
      [] val.t = "list" ->
            [i \in DOMAIN val.l |->
                IF val.l[i].t = "dict" THEN val.l[i].d
                ELSE [predicate |-> PStr(StrOf(val.l[i]))]]
      [] OTHER -> <<[predicate |-> PStr(StrOf(val))]>>

(* as if the list kept only the candidates that carry a predicate *)
NormalizeVal_SkipsUnusable(val) ==
    CASE val.t = "none" -> <<>>
      [] val.t = "str"  -> <<[predicate |-> val]>>
      [] val.t = "dict" -> <<val.d>>
      [] val.t = "list" ->
            LET usable == SelectSeq(val.l, LAMBDA v :
                              v.t # "dict" \/ "predicate" \in DOMAIN v.d)
            IN  [i \in DOMAIN usable |->
                    IF usable[i].t = "dict" THEN usable[i].d
                    ELSE [predicate |-> PStr(StrOf(usable[i]))]]
      [] OTHER -> <<>>

(* rewriter.py:51-59: the value stored for one endpoint, <<>> when none is *)
NormalizeVal(val) ==
    CASE val.t = "none" -> <<>>
      [] val.t = "str"  -> <<[predicate |-> val]>>
      [] val.t = "dict" -> <<val.d>>
      [] val.t = "list" ->
            [i \in DOMAIN val.l |->
                IF val.l[i].t = "dict" THEN val.l[i].d
                ELSE [predicate |-> PStr(StrOf(val.l[i]))]]
      [] OTHER -> <<>>

(* rewriter.py:50-59 *)
RECURSIVE NormalizePerEp(_, _)
NormalizePerEp(per_ep, acc) ==
    IF per_ep = <<>> THEN acc
    ELSE LET ep  == Head(per_ep)[1]
             lst == NormalizeVal(Head(per_ep)[2])
         IN  NormalizePerEp(Tail(per_ep),
                            IF lst # <<>> THEN ODSet(acc, ep, lst) ELSE acc)

(* rewriter.py:49 *)
NormalizeKey(gkey) ==
    IF gkey # <<>> /\ Head(gkey) = "gen:" THEN gkey ELSE <<"gen:">> \o gkey

(* rewriter.py:46-61 *)
RECURSIVE NormalizeRoot(_, _)
NormalizeRoot(root, acc_out) ==
    IF root = <<>> THEN acc_out
    ELSE LET gkey   == Head(root)[1]
             per_ep == Head(root)[2]
             acc    == IF per_ep.t = "dict"
                       THEN NormalizePerEp(per_ep.d, <<>>) ELSE <<>>
         IN  NormalizeRoot(Tail(root),
                           IF acc # <<>>
                           THEN ODSet(acc_out, NormalizeKey(gkey), acc)
                           ELSE acc_out)

(* rewriter.py:34-62 *)
_normalize_candidates(cands) ==
    IF cands.t # "dict" THEN <<>>
    ELSE LET root ==
                 IF ODHas(cands.d, <<"mapping">>)
                    /\ ODGet(cands.d, <<"mapping">>).t = "dict"
                 THEN IF ODHas(ODGet(cands.d, <<"mapping">>).d, <<"selected">>)
                      THEN ODGet(ODGet(cands.d, <<"mapping">>).d, <<"selected">>)
                      ELSE PDict(<<>>)
                 ELSE IF ODHas(cands.d, <<"selected">>)
                      THEN ODGet(cands.d, <<"selected">>)
                      ELSE cands
         IN  IF root.t # "dict" THEN <<>> ELSE NormalizeRoot(root.d, <<>>)

(* rewriter.py:66-71; PNone when no key carries a non-empty string *)
RECURSIVE PickFirstStr(_, _)
PickFirstStr(d, keys) ==
    IF keys = <<>> THEN PNone
    ELSE IF IsNonEmptyStr(DGet(d, Head(keys))) THEN DGet(d, Head(keys))
         ELSE PickFirstStr(d, Tail(keys))

pick_url(d) == PickFirstStr(d, <<"service", "sparql", "url", "endpoint", "iri">>)

(* Python's  a or b or c or d  over d.get(...) : the first truthy value, else the last *)
RECURSIVE FirstTruthy(_, _)
FirstTruthy(d, keys) ==
    IF Len(keys) = 1 THEN DGet(d, Head(keys))
    ELSE IF Truthy(DGet(d, Head(keys))) THEN DGet(d, Head(keys))
         ELSE FirstTruthy(d, Tail(keys))

(* rewriter.py:75-80 *)
RECURSIVE LookupDict(_, _)
LookupDict(items, lut) ==
    IF items = <<>> THEN lut
    ELSE LET k == Head(items)[1]
             v == Head(items)[2]
             lut2 ==
                 CASE v.t = "dict" ->
                        IF pick_url(v.d).t = "str"
                        THEN ODSet(lut, k, pick_url(v.d).s) ELSE lut
                   [] v.t = "str" -> ODSet(lut, k, v.s)
                   [] OTHER -> lut
         IN  LookupDict(Tail(items), lut2)

(* rewriter.py:82-87 *)
RECURSIVE LookupList(_, _)
LookupList(items, lut) ==
    IF items = <<>> THEN lut
    ELSE LET item == Head(items)
             k    == FirstTruthy(item.d, <<"id", "name", "endpoint", "alias">>)
             url  == IF pick_url(item.d).t = "str" THEN pick_url(item.d)
                     ELSE IF k.t = "str" /\ StartsWithHttp(k.s) THEN k ELSE PNone
         IN  LookupList(Tail(items),
                        IF item.t = "dict" /\ k.t = "str" /\ url.t = "str"
                        THEN ODSet(lut, k.s, url.s) ELSE lut)

(* rewriter.py:65-88 *)
_endpoint_lookup(eps) ==
    CASE eps.t = "dict" -> LookupDict(eps.d, <<>>)
      [] eps.t = "list" -> LookupList(eps.l, <<>>)
      [] OTHER -> <<>>

(* rewriter.py:91-96; <<>> stands for None *)
_pick_predicate_iri(c) ==
    LET v == PickFirstStr(c, <<"predicate", "uri", "iri", "p", "property">>)
    IN  IF v.t = "str"
        THEN _sanitize_iri(<<"<">> \o StripChunks(v.s, {"<", ">", " "}) \o <<">">>)
        ELSE <<>>

------------------------------------------------------------------------------
(* TripleScanner *)

(* body[a:b] of Python, positions counted from 1 *)
Slice(s, a, b) == SubSeq(s, a, b - 1)

(* rewriter.py:19-23: the position of the first form keyword, 0 when none *)
FirstKw(q) ==
    IF \E i \in DOMAIN q : q[i].k = "kw"
    THEN CHOOSE i \in DOMAIN q : q[i].k = "kw" /\ \A j \in 1..(i - 1) : q[j].k # "kw"
    ELSE 0

_split_prologue(q) ==
    IF FirstKw(q) = 0 THEN <<(<<>>), q>>
    ELSE <<Slice(q, 1, FirstKw(q)), SubSeqFrom(q, FirstKw(q))>>

(* the first position >= i of s that holds no whitespace token *)
RECURSIVE SkipWs(_, _)
SkipWs(s, i) == IF i <= Len(s) /\ IsWs(s[i]) THEN SkipWs(s, i + 1) ELSE i

(* rewriter.py:103: where the match of the generic triple at position i ends: *)
(* the optional group \s*\.\s* takes a following dot with the whitespace      *)
(* around it                                                                  *)
MatchEnd(s, i) ==
    IF s[i].dot THEN SkipWs(s, i + 1)
    ELSE LET j == SkipWs(s, i + 1)
         IN  IF j <= Len(s) /\ s[j].k = "dot" THEN SkipWs(s, j + 1) ELSE i + 1

(* rewriter.py:99-105, 110: the matches of _RE_GEN_TRIPLE in text order, the *)
(* search resuming where the previous match ended                            *)
RECURSIVE MatchesFrom(_, _)
MatchesFrom(s, i) ==
    LET starts == {j \in i..Len(s) : s[j].k = "gen"}
    IN  IF starts = {} THEN <<>>
        ELSE LET a == SetMin(starts)
             IN  <<[start |-> a, end |-> MatchEnd(s, a),
                    subj |-> s[a].s, pred |-> s[a].p, obj |-> s[a].o]>>
                 \o MatchesFrom(s, MatchEnd(s, a))

GenMatches(s) == MatchesFrom(s, 1)

(* rewriter.py:118-126: the inner loop; returns <<end, group, j>> *)
RECURSIVE ExtendRun(_, _, _, _, _)
ExtendRun(s, it, end, group, j) ==
    IF j <= Len(it) /\ Strip(Slice(s, end, it[j].start)) = <<>>
    THEN ExtendRun(s, it, it[j].end, Append(group, it[j]), j + 1)
    ELSE <<end, group, j>>

(* as if the outer loop went on at the match after it[i], i = i + 1, and not *)
(* at the match the inner loop stopped at                                    *)
RECURSIVE RunsFrom_Revisits(_, _, _)
RunsFrom_Revisits(s, it, i) ==
    IF i > Len(it) THEN <<>>
    ELSE LET r == ExtendRun(s, it, it[i].end, <<it[i]>>, i + 1)
         IN  <<[start |-> it[i].start, end |-> r[1], matches |-> r[2]]>>
             \o RunsFrom_Revisits(s, it, i + 1)

(* rewriter.py:112-128: the outer loop *)
RECURSIVE RunsFrom(_, _, _)
RunsFrom(s, it, i) ==
    IF i > Len(it) THEN <<>>
    ELSE LET r == ExtendRun(s, it, it[i].end, <<it[i]>>, i + 1)
         IN  <<[start |-> it[i].start, end |-> r[1], matches |-> r[2]]>>
             \o RunsFrom(s, it, r[3])

(* as if blank text were not required between the triples of a run *)
_collect_one_run(s) ==
    LET it == GenMatches(s)
    IN  IF it = <<>> THEN <<>>
        ELSE <<[start |-> it[1].start, end |-> it[Len(it)].end, matches |-> it]>>

(* as if every generic triple were a run of its own *)
_collect_single_runs(s) ==
    LET it == GenMatches(s)
    IN  [i \in DOMAIN it |->
            [start |-> it[i].start, end |-> it[i].end, matches |-> <<it[i]>>]]

(* rewriter.py:108-129 *)
_collect_contiguous_runs(s) == RunsFrom(s, GenMatches(s), 1)

------------------------------------------------------------------------------
(* Segmenter *)

(* dict.get on the canonical maps, <<>> standing for None *)
MapGet(d, key) == IF ODHas(d, key) THEN ODGet(d, key) ELSE <<>>

(* rewriter.py:139-142 and 344-347 *)
PerEpOf(gkey, cmap) ==
    IF MapGet(cmap, gkey) # <<>> THEN MapGet(cmap, gkey)
    ELSE IF MapGet(cmap, Tail(gkey)) # <<>> THEN MapGet(cmap, Tail(gkey))
         ELSE MapGet(cmap, <<"gen:">> \o Tail(gkey))

(* rewriter.py:151 and 354; <<>> standing for None *)
ServiceOf(ep, urls) ==
    IF MapGet(urls, ep) # <<>> THEN MapGet(urls, ep)
    ELSE IF StartsWithHttp(ep) THEN ep ELSE <<>>

(* rewriter.py:136-154 *)
_get_match_services(m, cmap, urls) ==
    LET per_ep == PerEpOf(m.pred, cmap)
    IN  {ServiceOf(per_ep[i][1], urls) :
            i \in {j \in DOMAIN per_ep :
                     /\ per_ep[j][2] # <<>>
                     /\ _pick_predicate_iri(per_ep[j][2][1]) # <<>>
                     /\ ServiceOf(per_ep[j][1], urls) # <<>>}}

(* rewriter.py:157-165: the names of the variables of a match *)
_get_vars(m) ==
    (IF m.subj.v THEN {m.subj.n} ELSE {}) \cup (IF m.obj.v THEN {m.obj.n} ELSE {})

(* rewriter.py:172 *)
AliasName(base, tag, i) == base \o "_" \o tag \o ToString(i)

(* rewriter.py:168-176: the alias returned; the caller adds it to used *)
_fresh_var(base, used, tag) ==
    LET i == CHOOSE n \in 1..(Cardinality(used) + 1) :
                 /\ AliasName(base, tag, n) \notin used
                 /\ \A j \in 1..(n - 1) : AliasName(base, tag, j) \in used
    IN  AliasName(base, tag, i)

(* The order in which Python iterates a set of strings is fixed by their    *)
(* hashes, which differ from one interpreter process to the next: the       *)
(* caller of the segmenter passes, per match, whether the set is walked in  *)
(* one order or in the reverse one.                                         *)
RECURSIVE SetToSeq(_)
SetToSeq(S) ==
    IF S = {} THEN <<>>
    ELSE LET x == CHOOSE y \in S : TRUE IN <<x>> \o SetToSeq(S \ {x})

Reverse(s) == [i \in DOMAIN s |-> s[Len(s) + 1 - i]]

IterOrder(S, flipped) == IF flipped THEN Reverse(SetToSeq(S)) ELSE SetToSeq(S)

(* rewriter.py:220-223 *)
RECURSIVE MintLoop(_, _, _, _)
MintLoop(varseq, renames, used, log) ==
    IF varseq = <<>> THEN [renames |-> renames, used |-> used, log |-> log]
    ELSE IF Head(varseq) \in DOMAIN renames
         THEN MintLoop(Tail(varseq), renames, used, log)
         ELSE LET new_var == _fresh_var(Head(varseq), used, "L")
              IN  MintLoop(Tail(varseq), renames @@ (Head(varseq) :> new_var),
                           used \cup {new_var}, Append(log, new_var))

(* rewriter.py:195-200 and 228-233 *)
NewSegment(m, cmap, urls) ==
    [matches  |-> <<m>>,
     services |-> _get_match_services(m, cmap, urls),
     vars     |-> _get_vars(m),
     renames  |-> <<>>]

(* as if every shared variable called for a bridge *)
NeedsBridge_Always(has_union, shared_services, shared_vars) == shared_vars # {}

(* as if no bridge were ever built *)
NeedsBridge_Never(has_union, shared_services, shared_vars) == FALSE

(* rewriter.py:211-216 *)
NeedsBridge(has_union, shared_services, shared_vars) ==
    \/ has_union /\ shared_vars # {}
    \/ shared_services = {} /\ shared_vars # {}

(* as if the joining triple replaced the triples of the segment *)
JoinSegment_Replaces(cur, m, m_services, m_vars) ==
    [cur EXCEPT !.matches  = <<m>>,
                !.services = @ \cup m_services,
                !.vars     = @ \cup m_vars]

(* as if the services of the segment narrowed to the common ones *)
JoinSegment_Narrows(cur, m, m_services, m_vars) ==
    [cur EXCEPT !.matches  = Append(@, m),
                !.services = @ \cap m_services,
                !.vars     = @ \cup m_vars]

(* rewriter.py:250-255 *)
JoinSegment(cur, m, m_services, m_vars) ==
    [cur EXCEPT !.matches  = Append(@, m),
                !.services = @ \cup m_services,
                !.vars     = @ \cup m_vars]

(* rewriter.py:236-246; right_services is the very set object that becomes  *)
(* the new segment's services (230, 244) and line 253 updates it in place:  *)
(* its final value is set when the run is finished                          *)
NewBridge(cur, m_services, varseq) ==
    [left_services  |-> cur.services,
     right_services |-> m_services,
     mappings |-> [i \in DOMAIN varseq |->
                     [var   |-> varseq[i],
                      left  |-> cur.renames[varseq[i]],
                      right |-> varseq[i]]]]

(* rewriter.py:203-258: the loop from match i on *)
RECURSIVE SegmentLoop(_, _, _, _, _, _, _, _, _, _)
SegmentLoop(matches, i, cur, has_union, segments, bridges, used, log, cmap_urls, flips) ==
    IF i > Len(matches)
    THEN [segments |-> Append(segments, cur),
          bridges  |-> [b \in DOMAIN bridges |->
                          [bridges[b] EXCEPT !.right_services =
                              Append(segments, cur)[b + 1].services]],
          minted   |-> log]
    ELSE LET m == matches[i]
             m_services == _get_match_services(m, cmap_urls[1], cmap_urls[2])
             m_vars == _get_vars(m)
             shared_services == cur.services \cap m_services
             shared_vars == cur.vars \cap m_vars
         IN  IF NeedsBridge(has_union, shared_services, shared_vars)
             THEN LET varseq == IterOrder(shared_vars, i \in flips)
                      mint   == MintLoop(varseq, cur.renames, used, log)
                      closed == [cur EXCEPT !.renames = mint.renames]
                  IN  SegmentLoop(matches, i + 1,
                                  NewSegment(m, cmap_urls[1], cmap_urls[2]),
                                  Cardinality(m_services) > 1,
                                  Append(segments, closed),
                                  Append(bridges, NewBridge(closed, m_services, varseq)),
                                  mint.used, mint.log, cmap_urls, flips)
             ELSE SegmentLoop(matches, i + 1,
                              JoinSegment(cur, m, m_services, m_vars),
                              has_union \/ Cardinality(m_services) > 1,
                              segments, bridges, used, log, cmap_urls, flips)

(* as if the set of used names were kept from call to call *)
LeftoverUsedVars == history

(* rewriter.py:192: used_vars = set() *)
FreshUsedVars == {}

(* rewriter.py:179-260 *)
_segment_by_service_chains(matches, cmap, urls, flips) ==
    IF matches = <<>> THEN [segments |-> <<>>, bridges |-> <<>>, minted |-> <<>>]
    ELSE SegmentLoop(matches, 2, NewSegment(matches[1], cmap, urls),
                     Cardinality(_get_match_services(matches[1], cmap, urls)) > 1,
                     <<>>, <<>>, FreshUsedVars, <<>>, <<cmap, urls>>, flips)

------------------------------------------------------------------------------
(* Service URLs of the model, and sorted() on them *)

UrlA == <<"http", "://a.example/sparql">>
UrlB == <<"http", "://b.example/sparql">>
UrlC == <<"http", "://c.example/sparql">>

(* the URLs in the order Python's string comparison gives them *)
UrlOrder == <<UrlA, UrlB, UrlC>>

Sorted(S) == SelectSeq(UrlOrder, LAMBDA u : u \in S)

(* sep.join(parts) on token text *)
RECURSIVE Join(_, _)
Join(parts, sep) ==
    IF parts = <<>> THEN <<>>
    ELSE IF Len(parts) = 1 THEN parts[1]
         ELSE parts[1] \o sep \o Join(Tail(parts), sep)

(* rewriter.py:324 and 383: "{ { " + " } UNION { ".join(blocks) + " } }" *)
UnionGroup(blocks) ==
    <<Lb, Sp, Lb, Sp>> \o Join(blocks, <<Sp, Rb, Sp, Union, Sp, Lb, Sp>>)
    \o <<Sp, Rb, Sp, Rb>>

(* rewriter.py:308 and 377 *)
SvcUri(svc) == StripChunks(_sanitize_iri(svc), {"<", ">"})

------------------------------------------------------------------------------
(* BridgeBuilder *)

(* rewriter.py:311: the text one variable pair adds to a service block *)
PairText(mp) ==
    <<Lb, Sp, SameAs(mp.left, mp.right), Sp, Rb, Sp, Union, Sp,
      Lb, Sp, SameAs(mp.right, mp.left), Sp, Rb, Sp>>

(* rewriter.py:307-313 *)
BridgeBlock(svc, pairs) ==
    <<Service(SvcUri(svc)), Sp, Lb, Sp>>
    \o Flatten([i \in DOMAIN pairs |-> PairText(pairs[i])]) \o <<Rb>>

(* rewriter.py:316 *)
Binds(pairs) ==
    Join([i \in DOMAIN pairs |-> <<Bind(pairs[i].left, pairs[i].right)>>], <<Sp>>)

(* as if the bridge always asked every service of both sides *)
_build_bridge_AllServices(left_services, right_services, shared_vars) ==
    IF shared_vars = <<>> THEN <<>>
    ELSE LET svcs   == Sorted(left_services \cup right_services)
             blocks == [i \in DOMAIN svcs |-> BridgeBlock(svcs[i], shared_vars)]
                       \o <<Binds(shared_vars)>>
         IN  IF Len(blocks) = 1 THEN blocks[1] ELSE UnionGroup(blocks)

(* rewriter.py:264-324 *)
_build_bridge(left_services, right_services, shared_vars) ==
    IF shared_vars = <<>> THEN <<>>
    ELSE LET common_services == left_services \cap right_services
             bridge_services == IF common_services # {} THEN common_services
                                ELSE left_services \cup right_services
             svcs   == Sorted(bridge_services)
             blocks == [i \in DOMAIN svcs |-> BridgeBlock(svcs[i], shared_vars)]
                       \o <<Binds(shared_vars)>>
         IN  IF Len(blocks) = 1 THEN blocks[1] ELSE UnionGroup(blocks)

------------------------------------------------------------------------------
(* ServiceBlockBuilder *)

(* rewriter.py:341-343 *)
Renamed(term, ren) ==
    IF term.v /\ term.n \in DOMAIN ren THEN Var(ren[term.n]) ELSE term

(* rewriter.py:352-359: the first endpoint of per_ep, in insertion order,   *)
(* whose service is svc decides; <<>> when it yields no line                *)
RECURSIVE LineFor(_, _, _, _, _)
LineFor(per_ep, svc, urls, subj, obj) ==
    IF per_ep = <<>> THEN <<>>
    ELSE IF Head(per_ep)[2] # <<>> /\ ServiceOf(Head(per_ep)[1], urls) = svc
         THEN IF _pick_predicate_iri(Head(per_ep)[2][1]) # <<>>
              THEN <<Line(subj, _pick_predicate_iri(Head(per_ep)[2][1]), obj)>>
              ELSE <<>>
         ELSE LineFor(Tail(per_ep), svc, urls, subj, obj)

(* rewriter.py:335-359: the lines of the matches from position i on *)
RECURSIVE TriplesFor(_, _, _, _, _)
TriplesFor(segment, i, svc, cmap, urls) ==
    IF i > Len(segment.matches) THEN <<>>
    ELSE LET m == segment.matches[i]
         IN  (IF svc \in _get_match_services(m, cmap, urls)
              THEN LineFor(PerEpOf(m.pred, cmap), svc, urls,
                           Renamed(m.subj, segment.renames),
                           Renamed(m.obj, segment.renames))
              ELSE <<>>)
             \o TriplesFor(segment, i + 1, svc, cmap, urls)

(* rewriter.py:362-368 *)
RECURSIVE Unique(_, _)
Unique(triples, seen) ==
    IF triples = <<>> THEN <<>>
    ELSE IF Head(triples) \in seen THEN Unique(Tail(triples), seen)
         ELSE <<Head(triples)>> \o Unique(Tail(triples), seen \cup {Head(triples)})

(* rewriter.py:378 *)
ServiceBlock(svc, lines) ==
    <<Service(SvcUri(svc)), Sp, Lb, Sp>>
    \o Join([i \in DOMAIN lines |-> <<lines[i]>>], <<Sp>>) \o <<Sp, Rb>>

(* as if a single block were wrapped in a group like several blocks *)
_build_segment_query_AlwaysGroup(segment, cmap, urls) ==
    LET svcs   == SelectSeq(Sorted(segment.services),
                      LAMBDA u : TriplesFor(segment, 1, u, cmap, urls) # <<>>)
        blocks == [i \in DOMAIN svcs |->
                     ServiceBlock(svcs[i],
                         Unique(TriplesFor(segment, 1, svcs[i], cmap, urls), {}))]
    IN  IF blocks = <<>> THEN <<>> ELSE UnionGroup(blocks)

(* rewriter.py:326-383; <<>> stands for None *)
_build_segment_query(segment, cmap, urls) ==
    LET svcs   == SelectSeq(Sorted(segment.services),
                      LAMBDA u : TriplesFor(segment, 1, u, cmap, urls) # <<>>)
        blocks == [i \in DOMAIN svcs |->
                     ServiceBlock(svcs[i],
                         Unique(TriplesFor(segment, 1, svcs[i], cmap, urls), {}))]
    IN  IF blocks = <<>> THEN <<>>
        ELSE IF Len(blocks) = 1 THEN blocks[1] ELSE UnionGroup(blocks)

------------------------------------------------------------------------------
(* Reassembler *)

(* rewriter.py:8, 11-16.  The pattern is anchored at a line start, takes the  *)
(* whitespace before PREFIX and, after the IRI, the longest whitespace that   *)
(* ends at a line end or at the end of the text.                              *)
AtLineStart(s, i) == i = 1 \/ s[i - 1].k = "nl"

AtLineEnd(s, p) == p > Len(s) \/ s[p].k = "nl"

(* the position after the match of a PREFIX line whose keyword is at j, 0 when *)
(* \s*$ cannot match                                                          *)
PrefixMatchEnd(s, j) ==
    LET ends == {p \in (j + 1)..SkipWs(s, j + 1) : AtLineEnd(s, p)}
    IN  IF ends = {} THEN 0 ELSE SetMax(ends)

(* a match of the pattern starts at position i *)
PrefixAt(s, i) ==
    /\ AtLineStart(s, i)
    /\ SkipWs(s, i) <= Len(s)
    /\ s[SkipWs(s, i)].k = "prefix"
    /\ PrefixMatchEnd(s, SkipWs(s, i)) # 0

(* re.sub: the leftmost match from i on is replaced, the search resumes after it *)
RECURSIVE FixFrom(_, _)
FixFrom(s, i) ==
    LET starts == {j \in i..Len(s) : PrefixAt(s, j)}
    IN  IF starts = {} THEN SubSeqFrom(s, i)
        ELSE LET a == SetMin(starts)
             IN  Slice(s, i, a) \o <<Pfx(FALSE)>>
                 \o FixFrom(s, PrefixMatchEnd(s, SkipWs(s, a)))

_fix_spaces_in_prefix_iris(text) == FixFrom(text, 1)

(* rewriter.py:387: \s+([}\)])\s*\.\s*  becomes  " }" *)
DotsAt(s, i) ==
    /\ IsWs(s[i])
    /\ SkipWs(s, i) <= Len(s)
    /\ s[SkipWs(s, i)].k = "rbrace"
    /\ SkipWs(s, SkipWs(s, i) + 1) <= Len(s)
    /\ s[SkipWs(s, SkipWs(s, i) + 1)].k = "dot"

DotsEnd(s, i) == SkipWs(s, SkipWs(s, SkipWs(s, i) + 1) + 1)

RECURSIVE TidyDots(_, _)
TidyDots(s, i) ==
    LET starts == {j \in i..Len(s) : DotsAt(s, j)}
    IN  IF starts = {} THEN SubSeqFrom(s, i)
        ELSE LET a == SetMin(starts)
             IN  Slice(s, i, a) \o <<Sp, Rb>> \o TidyDots(s, DotsEnd(s, a))

(* rewriter.py:388: }\s*{  becomes  "} {" *)
BracesAt(s, i) ==
    /\ s[i].k = "rbrace"
    /\ SkipWs(s, i + 1) <= Len(s)
    /\ s[SkipWs(s, i + 1)].k = "lbrace"

RECURSIVE TidyBraces(_, _)
TidyBraces(s, i) ==
    LET starts == {j \in i..Len(s) : BracesAt(s, j)}
    IN  IF starts = {} THEN SubSeqFrom(s, i)
        ELSE LET a == SetMin(starts)
             IN  Slice(s, i, a) \o <<Rb, Sp, Lb>> \o TidyBraces(s, SkipWs(s, a + 1) + 1)

(* the first position >= i of s that holds no blank *)
RECURSIVE SkipSp(_, _)
SkipSp(s, i) == IF i <= Len(s) /\ s[i].k = "sp" THEN SkipSp(s, i + 1) ELSE i

(* rewriter.py:389: [ \t]+\n  becomes  "\n" *)
LineEndAt(s, i) ==
    /\ s[i].k = "sp"
    /\ SkipSp(s, i) <= Len(s)
    /\ s[SkipSp(s, i)].k = "nl"

RECURSIVE TidyLineEnds(_, _)
TidyLineEnds(s, i) ==
    LET starts == {j \in i..Len(s) : LineEndAt(s, j)}
    IN  IF starts = {} THEN SubSeqFrom(s, i)
        ELSE LET a == SetMin(starts)
             IN  Slice(s, i, a) \o <<Nl>> \o TidyLineEnds(s, SkipSp(s, a) + 1)

(* as if the rule for ". }" left the brace out *)
_tidy_LosesBrace(text) ==
    LET t == TidyLineEnds(TidyBraces(TidyDots(text, 1), 1), 1)
        dotted == {i \in DOMAIN text : DotsAt(text, i)}
        closing == {i \in DOMAIN t : t[i].k = "rbrace"}
    IN  IF dotted # {} /\ closing # {}
        THEN SubSeq(t, 1, SetMin(closing) - 1) \o SubSeqFrom(t, SetMin(closing) + 1)
        ELSE t

(* rewriter.py:386-390 *)
_tidy(text) == TidyLineEnds(TidyBraces(TidyDots(text, 1), 1), 1)

(* rewriter.py:440-443 and 454-457 *)
HasUnionWord(frag) == \E i \in DOMAIN frag : frag[i].k = "union"

WrapIfUnion(frag) ==
    IF HasUnionWord(Strip(frag)) /\ Head(Strip(frag)).k # "lbrace"
    THEN <<Lb, Sp>> \o Strip(frag) \o <<Sp, Rb>>
    ELSE frag

(* as if each bridge were emitted before the segment on its left *)
RECURSIVE RunParts_BridgeFirst(_, _, _, _, _)
RunParts_BridgeFirst(segments, bridges, i, cmap, urls) ==
    IF i > Len(segments) THEN <<>>
    ELSE LET rewritten == _build_segment_query(segments[i], cmap, urls)
             bridge_pattern ==
                 IF i <= Len(bridges)
                 THEN _build_bridge(bridges[i].left_services,
                                    bridges[i].right_services,
                                    bridges[i].mappings)
                 ELSE <<>>
         IN  (IF bridge_pattern # <<>>
              THEN <<WrapIfUnion(bridge_pattern) \o <<Sp>>>> ELSE <<>>)
             \o (IF rewritten # <<>> THEN <<WrapIfUnion(rewritten) \o <<Sp>>>> ELSE <<>>)
             \o RunParts_BridgeFirst(segments, bridges, i + 1, cmap, urls)

(* rewriter.py:437-457: the parts the segments and bridges of one run add *)
RECURSIVE RunParts(_, _, _, _, _)
RunParts(segments, bridges, i, cmap, urls) ==
    IF i > Len(segments) THEN <<>>
    ELSE LET rewritten == _build_segment_query(segments[i], cmap, urls)
             bridge_pattern ==
                 IF i <= Len(bridges)
                 THEN _build_bridge(bridges[i].left_services,
                                    bridges[i].right_services,
                                    bridges[i].mappings)
                 ELSE <<>>
         IN  (IF rewritten # <<>> THEN <<WrapIfUnion(rewritten) \o <<Sp>>>> ELSE <<>>)
             \o (IF bridge_pattern # <<>>
                 THEN <<WrapIfUnion(bridge_pattern) \o <<Sp>>>> ELSE <<>>)
             \o RunParts(segments, bridges, i + 1, cmap, urls)

(* rewriter.py:462-466 *)
Assembled(prol, parts) ==
    _tidy(IF prol # <<>>
          THEN RStrip(_fix_spaces_in_prefix_iris(prol)) \o <<Sp>> \o LStrip(Flatten(parts))
          ELSE LStrip(Flatten(parts)))

------------------------------------------------------------------------------
(* rewrite, rewriter.py:417-471, as a process *)

(* rewriter.py:438 and 448 per run, kept for inspection: the fragment of each *)
(* segment and of each bridge, <<>> where the builder returned nothing        *)
SegTexts(sb, cmap, urls) ==
    [i \in DOMAIN sb.segments |-> _build_segment_query(sb.segments[i], cmap, urls)]

BridgeTexts(sb) ==
    [i \in DOMAIN sb.bridges |->
        _build_bridge(sb.bridges[i].left_services, sb.bridges[i].right_services,
                      sb.bridges[i].mappings)]

(* rewriter.py:418-422 *)
Prepare ==
    /\ pc = "start"
    /\ ep_urls' = _endpoint_lookup(endpoints)
    /\ cand_map' = _normalize_candidates(candidates)
    /\ prologue' = _split_prologue(query)[1]
    /\ body' = _split_prologue(query)[2]
    /\ runs' = _collect_contiguous_runs(_split_prologue(query)[2])
    /\ ri' = 1
    /\ last' = 1
    /\ out_parts' = <<>>
    /\ pc' = "runs"
    /\ UNCHANGED <<query, candidates, endpoints, seglog, minted, out, result>>
    /\ UNCHANGED <<parked, calls, history>>

(* rewriter.py:423-425 *)
ReturnNoRuns ==
    /\ pc = "runs"
    /\ runs = <<>>
    /\ result' = _tidy(RStrip(_fix_spaces_in_prefix_iris(prologue)) \o <<Sp>>
                       \o LStrip(body))
    /\ pc' = "done"
    /\ UNCHANGED <<query, candidates, endpoints, ep_urls, cand_map, prologue, body,
                   runs, ri, out_parts, last, seglog, minted, out>>
    /\ UNCHANGED <<parked, calls, history>>

(* rewriter.py:219: the matches at which the order of shared_vars is a choice, *)
(* those that share two variables with the matches before them                *)
OrderChoices(matches) ==
    {i \in 2..Len(matches) :
        Cardinality(_get_vars(matches[i])
                    \cap UNION {_get_vars(matches[j]) : j \in 1..(i - 1)}) >= 2}

(* rewriter.py:430-459: one turn of the loop over the runs *)
RewriteRun ==
    /\ pc = "runs"
    /\ ri <= Len(runs)
    /\ \E flips \in SUBSET OrderChoices(runs[ri].matches) :
          LET sb == _segment_by_service_chains(runs[ri].matches, cand_map, ep_urls, flips)
          IN  /\ out_parts' = out_parts \o <<Slice(body, last, runs[ri].start)>>
                     \o RunParts(sb.segments, sb.bridges, 1, cand_map, ep_urls)
              /\ seglog' = Append(seglog,
                     [segments |-> sb.segments, bridges |-> sb.bridges,
                      seg_text |-> SegTexts(sb, cand_map, ep_urls),
                      bridge_text |-> BridgeTexts(sb)])
              /\ minted' = Append(minted, sb.minted)
              /\ history' = history \cup Range(sb.minted)
    /\ last' = runs[ri].end
    /\ ri' = ri + 1
    /\ UNCHANGED <<query, candidates, endpoints, pc, ep_urls, cand_map, prologue,
                   body, runs, out, result>>
    /\ UNCHANGED <<parked, calls>>

(* rewriter.py:461-466 *)
Assemble ==
    /\ pc = "runs"
    /\ runs # <<>>
    /\ ri > Len(runs)
    /\ out' = Assembled(prologue, Append(out_parts, SubSeqFrom(body, last)))
    /\ out_parts' = Append(out_parts, SubSeqFrom(body, last))
    /\ pc' = "check"
    /\ UNCHANGED <<query, candidates, endpoints, ep_urls, cand_map, prologue, body,
                   runs, ri, last, seglog, minted, result>>
    /\ UNCHANGED <<parked, calls, history>>

(* as if the brace count were never tested *)
Unbalanced_Never(text) == FALSE

(* rewriter.py:468: the test of the final brace count *)
Unbalanced(text) == NumLb(text) # NumRb(text)

(* rewriter.py:468-469 *)
ReturnFallback ==
    /\ pc = "check"
    /\ Unbalanced(out)
    /\ result' = _fix_spaces_in_prefix_iris(query)
    /\ pc' = "done"
    /\ UNCHANGED <<query, candidates, endpoints, ep_urls, cand_map, prologue, body,
                   runs, ri, out_parts, last, seglog, minted, out>>
    /\ UNCHANGED <<parked, calls, history>>

(* rewriter.py:471 *)
ReturnRewritten ==
    /\ pc = "check"
    /\ ~Unbalanced(out)
    /\ result' = out
    /\ pc' = "done"
    /\ UNCHANGED <<query, candidates, endpoints, ep_urls, cand_map, prologue, body,
                   runs, ri, out_parts, last, seglog, minted, out>>
    /\ UNCHANGED <<parked, calls, history>>

Next ==
    \/ Prepare
    \/ ReturnNoRuns
    \/ RewriteRun
    \/ Assemble
    \/ ReturnFallback
    \/ ReturnRewritten

(* rewriter.py:430-461 as a function: the parts from run r on; flips[r] tells, *)
(* for run r, at which matches the shared variables are walked in reverse     *)
RECURSIVE PartsFrom(_, _, _, _, _, _, _)
PartsFrom(text, rs, r, from, cmap, urls, flips) ==
    IF r > Len(rs) THEN <<SubSeqFrom(text, from)>>
    ELSE LET sb == _segment_by_service_chains(rs[r].matches, cmap, urls, flips[r])
         IN  <<Slice(text, from, rs[r].start)>>
             \o RunParts(sb.segments, sb.bridges, 1, cmap, urls)
             \o PartsFrom(text, rs, r + 1, rs[r].end, cmap, urls, flips)

(* rewriter.py:417-471 as a function of its arguments *)
rewrite(q, cands, eps, flips) ==
    LET urls == _endpoint_lookup(eps)
        cmap == _normalize_candidates(cands)
        prol == _split_prologue(q)[1]
        text == _split_prologue(q)[2]
        rs   == _collect_contiguous_runs(text)
        o    == Assembled(prol, PartsFrom(text, rs, 1, 1, cmap, urls, flips))
    IN  IF rs = <<>>
        THEN _tidy(RStrip(_fix_spaces_in_prefix_iris(prol)) \o <<Sp>> \o LStrip(text))
        ELSE IF Unbalanced(o) THEN _fix_spaces_in_prefix_iris(q) ELSE o

(* no set is walked in reverse *)
NoFlips == [r \in 1..16 |-> {}]

(* the state rewrite starts in, whatever its arguments *)
Entry ==
    /\ pc = "start"
    /\ ep_urls = <<>>
    /\ cand_map = <<>>
    /\ prologue = <<>>
    /\ body = <<>>
    /\ runs = <<>>
    /\ ri = 1
    /\ last = 1
    /\ out_parts = <<>>
    /\ seglog = <<>>
    /\ minted = <<>>
    /\ out = <<>>
    /\ result = <<>>

(* a process in which this is the first call of rewrite and the only one *)
OneCall ==
    /\ parked = <<>>
    /\ calls = 1
    /\ history = {}

------------------------------------------------------------------------------
(* Inputs *)

MaxTriples == 3     \* generic triples of the run in the queries of Spec
MaxItems == 3       \* items of the body in the queries of SpecText

KeyP == <<"gen:", "partOf">>
KeyQ == <<"gen:", "describedBy">>
KeyR == <<"gen:", "relatedTo">>
Keys == <<KeyP, KeyQ, KeyR>>

EpA == <<"epA">>
EpB == <<"epB">>
Eps == <<EpA, EpB>>

(* the predicate an endpoint offers for a key, as the upstream selector writes it *)
PredOf(gkey, ep) == <<"<", "http://" \o ep[1] \o "/" \o gkey[2], ">">>

(* {"epA": "http://a.example/sparql", "epB": "http://b.example/sparql"} *)
PlainEndpoints == PDict(<< <<EpA, PStr(UrlA)>>, <<EpB, PStr(UrlB)>> >>)

(* the CandidateMap in which key k has one candidate at each endpoint of offer[k], *)
(* in the list form of the interface                                               *)
PerEpItems(gkey, eps) ==
    LET es == SelectSeq(Eps, LAMBDA e : e \in eps)
    IN  [i \in DOMAIN es |->
            <<es[i], PList(<<PDict([predicate |-> PStr(PredOf(gkey, es[i]))])>>)>>]

ListCandidates(offer) ==
    LET ks == SelectSeq(Keys, LAMBDA g : g \in DOMAIN offer /\ offer[g] # {})
    IN  PDict([i \in DOMAIN ks |-> <<ks[i], PDict(PerEpItems(ks[i], offer[ks[i]]))>>])

Offers ==
    {[g \in {KeyP, KeyQ, KeyR} |-> IF g = KeyP THEN ps ELSE IF g = KeyQ THEN qs ELSE rs] :
       ps \in SUBSET {EpA, EpB}, qs \in SUBSET {EpA, EpB}, rs \in {{}, {EpA}}}

(* the generic triples of the queries: ?a gen:partOf ?b . / ?b gen:describedBy ?c . *)
(* / ?c gen:relatedTo ?c .                                                          *)
TripleAB == Gen(Var("a"), KeyP, Var("b"), TRUE)
TripleBC == Gen(Var("b"), KeyQ, Var("c"), TRUE)
TripleCC == Gen(Var("c"), KeyR, Var("c"), TRUE)
Triples == {TripleAB, TripleBC, TripleCC}

(* SELECT * WHERE { items } , the items separated by single blanks *)
SpacedItems(items) == Flatten([i \in DOMAIN items |-> items[i] \o <<Sp>>])

QueryOf(prol, items, tail) == prol \o <<Kw, Sp, Lb, Sp>> \o SpacedItems(items) \o tail

(* the WHERE block closed, or left open *)
Tails == {<<Rb>>, <<>>}

(* Spec: one run of up to MaxTriples generic triples, every offer of two endpoints *)
Init ==
    /\ Entry
    /\ OneCall
    /\ \E ts \in SeqsUpTo(Triples, MaxTriples), tail \in Tails :
          query = QueryOf(<<>>, [i \in DOMAIN ts |-> <<ts[i]>>], tail)
    /\ \E offer \in Offers : candidates = ListCandidates(offer)
    /\ endpoints = PlainEndpoints

Spec == Init /\ [][Next]_vars

(* SpecText: bodies of up to MaxItems items, among them braces, OPTIONAL {, *)
(* a dot, other text that mentions ?b_L1, with or without a PREFIX line,   *)
(* closed by one or two braces                                             *)
TextItems ==
    {<<TripleAB>>, <<TripleBC>>, <<Txt({"b_L1"})>>, <<Opt, Sp, Lb>>, <<Rb>>, <<Dot>>}

TextPrologues == {<<>>, <<Pfx(TRUE), Nl>>}

TextTails == {<<Rb>>, <<Rb, Sp, Rb>>}

TextOffers ==
    {[g \in {KeyP, KeyQ, KeyR} |->
         IF g = KeyP THEN ps ELSE IF g = KeyQ THEN qs ELSE {}] :
       ps \in {{}, {EpA}}, qs \in {{}, {EpA}, {EpB}}}

InitText ==
    /\ Entry
    /\ OneCall
    /\ \E prol \in TextPrologues, items \in SeqsUpTo(TextItems, MaxItems),
          tail \in TextTails :
          query = QueryOf(prol, items, tail)
    /\ \E offer \in TextOffers : candidates = ListCandidates(offer)
    /\ endpoints = PlainEndpoints

SpecText == InitText /\ [][Next]_vars

(* SpecShapes: CandidateMaps and EndpointRegistries in every shape the adapters *)
(* tell apart, over three queries                                               *)
MaxCands == 2       \* candidates in the list an endpoint offers for a key

GoodCand(gkey, ep) == PDict([predicate |-> PStr(PredOf(gkey, ep))])

(* a candidate that carries no predicate: {"score": 5} *)
NoPredCand == PDict([score |-> PNum])

(* what one endpoint can offer for one key *)
ValShapes(gkey, ep) ==
    {PNone, PNum, PStr(PredOf(gkey, ep)), GoodCand(gkey, ep), NoPredCand}
    \cup {PList(l) : l \in SeqsUpTo({GoodCand(gkey, ep), NoPredCand, PNone}, MaxCands)}

(* what the map can hold under the key of gen:partOf *)
PerKeyShapes ==
    {PNum}
    \cup {PDict(<< <<EpA, v>> >>) : v \in ValShapes(KeyP, EpA)}
    \cup {PDict(<< <<EpA, v>>, <<EpB, PStr(PredOf(KeyP, EpB))>> >>) :
             v \in ValShapes(KeyP, EpA)}

(* the two spellings of the key, gen:partOf and partOf *)
KeySpellings == {KeyP, <<"partOf">>}

RootOf(k, per_key) ==
    PDict(<< <<k, per_key>>, <<KeyQ, PDict(PerEpItems(KeyQ, {EpB}))>> >>)

(* the map bare, or as {"mapping": {"selected": map}}, or no map at all *)
ShapedCandidates ==
    {PNone, PList(<<>>)}
    \cup {RootOf(k, v) : k \in KeySpellings, v \in PerKeyShapes}
    \cup {PDict(<< <<<<"mapping">>, PDict(<< <<<<"selected">>, RootOf(k, v)>> >>)>> >>) :
             k \in KeySpellings, v \in PerKeyShapes}

ShapedEndpoints ==
    { PlainEndpoints,
      PDict(<< <<EpA, PDict([url |-> PStr(UrlA)])>>,
               <<EpB, PDict([sparql |-> PStr(UrlB)])>> >>),
      PDict(<< <<EpA, PNum>>, <<EpB, PStr(UrlB)>> >>),
      PDict(<< <<EpA, PDict([label |-> PStr(<<"A">>)])>>, <<EpB, PStr(UrlB)>> >>),
      PList(<< PDict([id |-> PStr(EpA), url |-> PStr(UrlA)]),
               PDict([name |-> PStr(EpB), service |-> PStr(UrlB)]) >>),
      PList(<< PNum, PDict([url |-> PStr(UrlA)]), PDict([id |-> PStr(EpA)]),
               PDict([id |-> PStr(EpB), url |-> PStr(UrlB)]) >>),
      PNone }

ShapeQueries ==
    { QueryOf(<<>>, <<>>, <<Rb>>),
      QueryOf(<<>>, << <<TripleAB>>, <<TripleBC>> >>, <<Rb>>),
      QueryOf(<<>>, << <<TripleAB>> >>, <<>>) }

InitShapes ==
    /\ Entry
    /\ OneCall
    /\ query \in ShapeQueries
    /\ candidates \in ShapedCandidates
    /\ endpoints \in ShapedEndpoints

SpecShapes == InitShapes /\ [][Next]_vars

(* SpecSameUrl: the queries of Spec over a registry in which both endpoint   *)
(* ids name the same service, the endpoints offering a key in either order,  *)
(* the first of them with or without a predicate in its candidate            *)
SameUrlEndpoints == PDict(<< <<EpA, PStr(UrlA)>>, <<EpB, PStr(UrlA)>> >>)

SameUrlPerKey(gkey) ==
    { <<>>,
      << <<EpA, PList(<<GoodCand(gkey, EpA)>>)>> >>,
      << <<EpA, PList(<<GoodCand(gkey, EpA)>>)>>, <<EpB, PList(<<GoodCand(gkey, EpB)>>)>> >>,
      << <<EpB, PList(<<GoodCand(gkey, EpB)>>)>>, <<EpA, PList(<<GoodCand(gkey, EpA)>>)>> >>,
      << <<EpA, PList(<<NoPredCand>>)>>, <<EpB, PList(<<GoodCand(gkey, EpB)>>)>> >> }

SameUrlCandidates ==
    {PDict(SelectSeq(<< <<KeyP, PDict(ps)>>, <<KeyQ, PDict(qs)>> >>,
                     LAMBDA it : it[2].d # <<>>)) :
        ps \in SameUrlPerKey(KeyP), qs \in SameUrlPerKey(KeyQ)}

InitSameUrl ==
    /\ Entry
    /\ OneCall
    /\ \E ts \in SeqsUpTo({TripleAB, TripleBC}, MaxTriples), tail \in Tails :
          query = QueryOf(<<>>, [i \in DOMAIN ts |-> <<ts[i]>>], tail)
    /\ candidates \in SameUrlCandidates
    /\ endpoints = SameUrlEndpoints

SpecSameUrl == InitSameUrl /\ [][Next]_vars

(* SpecScan: bodies of up to MaxParts parts: a generic triple, two generic   *)
(* triples in a row, a FILTER, a line break, a triple head followed by       *)
(* "; gen:describedBy ?c .", a generic triple whose subject is a prefixed    *)
(* name                                                                      *)
MaxParts == 3       \* parts of the body in the queries of SpecScan

TripleABSemi == Gen(Var("a"), KeyP, Var("b"), FALSE)

ScanParts ==
    { <<TripleAB>>,
      <<TripleAB, Sp, TripleBC>>,
      <<Txt({"b"})>>,
      <<Nl>>,
      <<TripleABSemi, Sp, Cont(KeyQ, Var("c"), TRUE)>>,
      <<PnGen("ex:s", KeyP, Var("b"))>> }

ScanOffers ==
    { [g \in {KeyP, KeyQ, KeyR} |-> IF g = KeyP THEN {EpA} ELSE IF g = KeyQ THEN qs ELSE {}] :
        qs \in {{EpA}, {EpB}} }

InitScan ==
    /\ Entry
    /\ OneCall
    /\ \E parts \in SeqsUpTo(ScanParts, MaxParts), tail \in Tails :
          query = QueryOf(<<>>, parts, tail)
    /\ \E offer \in ScanOffers : candidates = ListCandidates(offer)
    /\ endpoints = PlainEndpoints

SpecScan == InitScan /\ [][Next]_vars

(* SpecCalls: two callers in one process, each inside a call of rewrite, the *)
(* interpreter passing from one to the other between any two steps; a caller *)
(* whose call returned calls again, up to MaxCalls calls in all              *)
MaxCalls == 3       \* calls of rewrite begun in the process

OfferOf(ps, qs) ==
    [g \in {KeyP, KeyQ, KeyR} |-> IF g = KeyP THEN ps ELSE IF g = KeyQ THEN qs ELSE {}]

(* the arguments of the calls: a bridge with one alias, no bridge, two bridges *)
(* with two aliases, no generic triple, an open WHERE block                     *)
CallInputs ==
    { [q |-> QueryOf(<<>>, << <<TripleAB>>, <<TripleBC>> >>, <<Rb>>),
       c |-> ListCandidates(OfferOf({EpA}, {EpB}))],
      [q |-> QueryOf(<<>>, << <<TripleAB>>, <<TripleBC>> >>, <<Rb>>),
       c |-> ListCandidates(OfferOf({EpA}, {EpA}))],
      [q |-> QueryOf(<<>>, << <<TripleAB>>, <<TripleBC>>, <<TripleAB>> >>, <<Rb>>),
       c |-> ListCandidates(OfferOf({EpA}, {EpB}))],
      [q |-> QueryOf(<<>>, <<>>, <<Rb>>),
       c |-> ListCandidates(OfferOf({EpA}, {EpB}))],
      [q |-> QueryOf(<<>>, << <<TripleAB>> >>, <<>>),
       c |-> ListCandidates(OfferOf({EpA}, {EpB}))] }

(* the locals of a call that was begun with arguments in and has not run yet *)
EntryLocals(in) ==
    <<in.q, in.c, PlainEndpoints, "start", <<>>, <<>>, <<>>, <<>>,
      <<>>, 1, <<>>, 1, <<>>, <<>>, <<>>, <<>> >>

InitCalls ==
    /\ Entry
    /\ \E in \in CallInputs : query = in.q /\ candidates = in.c
    /\ endpoints = PlainEndpoints
    /\ parked \in {EntryLocals(in) : in \in CallInputs}
    /\ calls = 2
    /\ history = {}

(* the interpreter passes to the other caller: each call has its own locals *)
Switch ==
    /\ parked # <<>>
    /\ parked' = locals
    /\ query' = parked[1]
    /\ candidates' = parked[2]
    /\ endpoints' = parked[3]
    /\ pc' = parked[4]
    /\ ep_urls' = parked[5]
    /\ cand_map' = parked[6]
    /\ prologue' = parked[7]
    /\ body' = parked[8]
    /\ runs' = parked[9]
    /\ ri' = parked[10]
    /\ out_parts' = parked[11]
    /\ last' = parked[12]
    /\ seglog' = parked[13]
    /\ minted' = parked[14]
    /\ out' = parked[15]
    /\ result' = parked[16]
    /\ UNCHANGED <<calls, history>>

(* the caller whose call returned calls rewrite again *)
CallAgain ==
    /\ pc = "done"
    /\ calls < MaxCalls
    /\ \E in \in CallInputs :
          /\ query' = in.q
          /\ candidates' = in.c
    /\ endpoints' = PlainEndpoints
    /\ pc' = "start"
    /\ ep_urls' = <<>>
    /\ cand_map' = <<>>
    /\ prologue' = <<>>
    /\ body' = <<>>
    /\ runs' = <<>>
    /\ ri' = 1
    /\ last' = 1
    /\ out_parts' = <<>>
    /\ seglog' = <<>>
    /\ minted' = <<>>
    /\ out' = <<>>
    /\ result' = <<>>
    /\ calls' = calls + 1
    /\ UNCHANGED <<parked, history>>

NextCalls ==
    \/ Prepare
    \/ ReturnNoRuns
    \/ RewriteRun
    \/ Assemble
    \/ ReturnFallback
    \/ ReturnRewritten
    \/ Switch
    \/ CallAgain

SpecCalls == InitCalls /\ [][NextCalls]_vars

------------------------------------------------------------------------------
(* Vocabulary of the properties *)

Done == pc = "done"

(* rewrite returned the assembled text (line 471) *)
Rewritten == Done /\ runs # <<>> /\ result = out

(* all the generic-triple matches of the body, in text order *)
AllMatches == Flatten([i \in DOMAIN runs |-> runs[i].matches])

ServicesOf(m) == _get_match_services(m, cand_map, ep_urls)

Kinds(text) == {text[i].k : i \in DOMAIN text}

(* text holds a SERVICE, UNION or BIND piece *)
HasFederation(text) == Kinds(text) \cap {"service", "union", "bind", "sameas", "line"} # {}

(* the generic triple of match m is still in text, as it was written *)
StillThere(m, text) ==
    \E i \in DOMAIN text :
        /\ text[i].k = "gen"
        /\ text[i].s = m.subj /\ text[i].p = m.pred /\ text[i].o = m.obj

------------------------------------------------------------------------------
(* C1 (as stated): whatever the input, the string rewrite returns holds as   *)
(* many "{" as "}".                                                          *)
C1_AlwaysBalanced == Done => NumLb(result) = NumRb(result)

(* C1 (amended): when the input query holds as many "{" as "}", so does the  *)
(* string rewrite returns, with or without generic triples in the query.     *)
C1_BalancedWhenInputIs ==
    (Done /\ NumLb(query) = NumRb(query)) => NumLb(result) = NumRb(result)

C1_Witness ==
    /\ Rewritten
    /\ NumLb(query) = NumRb(query)
    /\ "service" \in Kinds(result)
    /\ NumLb(result) > NumLb(query)

(* C2: when no generic triple has a usable candidate, every generic triple   *)
(* of the input is still in the output and nothing of SERVICE, UNION or BIND *)
(* is added.                                                                 *)
C2_NoOpWithoutCandidates ==
    (Done /\ \A i \in DOMAIN AllMatches : ServicesOf(AllMatches[i]) = {})
    => /\ \A i \in DOMAIN AllMatches : StillThere(AllMatches[i], result)
       /\ ~HasFederation(result)

(* C3: in a run where some triples have candidates, a triple with no         *)
(* candidate endpoint is emitted unchanged.                                  *)
C3_PassThroughKept ==
    Rewritten =>
        \A r \in DOMAIN runs : \A i, j \in DOMAIN runs[r].matches :
            (ServicesOf(runs[r].matches[i]) = {} /\ ServicesOf(runs[r].matches[j]) # {})
            => StillThere(runs[r].matches[i], result)

(* C4 (as stated): when every generic predicate of the query resolves to     *)
(* exactly one endpoint, the output holds no UNION and no BIND.              *)
EachOneEndpoint ==
    /\ AllMatches # <<>>
    /\ \A i \in DOMAIN AllMatches : Cardinality(ServicesOf(AllMatches[i])) = 1

SameEndpointPerRun ==
    \A r \in DOMAIN runs : \A i, j \in DOMAIN runs[r].matches :
        ServicesOf(runs[r].matches[i]) = ServicesOf(runs[r].matches[j])

------------------------------------------------------------------------------
(* Segments and fragments, as the properties read them *)

(* the position in its run of the first match of segment k *)
RECURSIVE SegStart(_, _)
SegStart(segments, k) ==
    IF k = 1 THEN 1 ELSE SegStart(segments, k - 1) + Len(segments[k - 1].matches)

(* the segment that holds the i-th match of the run *)
SegOf(segments, i) ==
    CHOOSE k \in DOMAIN segments :
        SegStart(segments, k) <= i /\ i < SegStart(segments, k) + Len(segments[k].matches)

(* the SERVICE keyword that governs position q of a fragment, 0 when none *)
OwnerOf(text, q) ==
    LET before == {p \in 1..(q - 1) : text[p].k = "service"}
    IN  IF before = {} THEN 0 ELSE SetMax(before)

(* the SERVICE blocks of a fragment that hold triple lines *)
TripleBlocks(text) ==
    {p \in DOMAIN text :
        /\ text[p].k = "service"
        /\ \E q \in DOMAIN text : text[q].k = "line" /\ OwnerOf(text, q) = p}

AllMinted == UNION {Range(minted[r]) : r \in DOMAIN minted}

LooksLike(term, orig) == term = orig \/ (orig.v /\ term.v /\ term.n \in AllMinted)

(* token tok is the line of match m for service u *)
IsLineOf(tok, m, u) ==
    /\ tok.k = "line"
    /\ LooksLike(tok.ls, m.subj) /\ LooksLike(tok.lo, m.obj)
    /\ \E e \in DOMAIN PerEpOf(m.pred, cand_map) :
          /\ ServiceOf(PerEpOf(m.pred, cand_map)[e][1], ep_urls) = u
          /\ tok.pr = _pick_predicate_iri(PerEpOf(m.pred, cand_map)[e][2][1])

(* the positions of text at which a block of service u holds the line of m *)
BlocksHolding(text, m, u) ==
    {p \in TripleBlocks(text) :
        /\ text[p].url = SvcUri(u)
        /\ \E q \in DOMAIN text : IsLineOf(text[q], m, u) /\ OwnerOf(text, q) = p}

IsInfix(part, text) ==
    \E i \in 0..(Len(text) - Len(part)) : SubSeq(text, i + 1, i + Len(part)) = part

OnlyBy(m, u) == ServicesOf(m) = {u}

------------------------------------------------------------------------------
(* C5: two neighbouring generic triples of a run that only one and the same  *)
(* endpoint resolves end in one segment (no bridge between them) whose       *)
(* fragment has a single SERVICE block for that endpoint holding both lines. *)
C5_SameEndpointGrouped ==
    Rewritten =>
        \A r \in DOMAIN runs : \A i \in 1..(Len(runs[r].matches) - 1) : \A u \in Range(UrlOrder) :
            LET ms  == runs[r].matches
                sgs == seglog[r].segments
            IN  (OnlyBy(ms[i], u) /\ OnlyBy(ms[i + 1], u))
                => /\ SegOf(sgs, i) = SegOf(sgs, i + 1)
                   /\ \E p \in TripleBlocks(seglog[r].seg_text[SegOf(sgs, i)]) :
                         /\ BlocksHolding(seglog[r].seg_text[SegOf(sgs, i)], ms[i], u) = {p}
                         /\ BlocksHolding(seglog[r].seg_text[SegOf(sgs, i)], ms[i + 1], u) = {p}

(* C6: a query whose generic triples are two neighbours that share a         *)
(* variable, the first resolved only by one endpoint and the second only by  *)
(* another: the output has one bridge group, over these two endpoints, with  *)
(* a BIND branch, between the fragments of two segments, and one SERVICE     *)
(* block per endpoint that holds the respective triple.                      *)
BridgeScenario ==
    /\ Len(runs) = 1
    /\ Len(AllMatches) = 2
    /\ _get_vars(AllMatches[1]) \cap _get_vars(AllMatches[2]) # {}
    /\ \E u1, u2 \in Range(UrlOrder) :
          u1 # u2 /\ OnlyBy(AllMatches[1], u1) /\ OnlyBy(AllMatches[2], u2)

------------------------------------------------------------------------------
(* the OPTIONAL { blocks of the body that are still open at position pos:    *)
(* the positions of their keywords                                           *)
EnclosingOptionals(text, pos) ==
    {i \in 1..(pos - 1) :
        /\ text[i].k = "optional"
        /\ SkipWs(text, i + 1) < pos
        /\ text[SkipWs(text, i + 1)].k = "lbrace"
        /\ \A e \in SkipWs(text, i + 1)..(pos - 1) :
              NumLb(SubSeq(text, SkipWs(text, i + 1), e))
                  > NumRb(SubSeq(text, SkipWs(text, i + 1), e))}

InOptional(m) == EnclosingOptionals(body, m.start) # {}

(* C7: a generic triple inside an OPTIONAL { } block is never in the segment *)
(* of a generic triple outside that block.                                   *)
C7_OptionalIsolated ==
    \A r \in DOMAIN seglog : \A k \in DOMAIN seglog[r].segments :
        \A i, j \in DOMAIN seglog[r].segments[k].matches :
            EnclosingOptionals(body, seglog[r].segments[k].matches[i].start)
                = EnclosingOptionals(body, seglog[r].segments[k].matches[j].start)

C7_Witness ==
    /\ Rewritten
    /\ Len(seglog) = 2
    /\ \E i, j \in DOMAIN AllMatches :
          /\ InOptional(AllMatches[i]) /\ ~InOptional(AllMatches[j])
          /\ ServicesOf(AllMatches[i]) = ServicesOf(AllMatches[j])
          /\ ServicesOf(AllMatches[i]) # {}
    /\ Count(result, "service") = 2

(* the names of the variables that occur in the input query *)
QueryVars ==
    UNION {IF query[i].k = "gen"
           THEN (IF query[i].s.v THEN {query[i].s.n} ELSE {})
                \cup (IF query[i].o.v THEN {query[i].o.n} ELSE {})
           ELSE IF query[i].k = "text" THEN query[i].vars ELSE {} : i \in DOMAIN query}

(* all the aliases minted so far in this call, in the order they were minted *)
MintedSeq == Flatten(minted)

(* C8: every alias minted in a call differs from every variable name of the  *)
(* input query and from every alias minted earlier in the call.              *)
C8_AliasesFresh ==
    /\ \A i \in DOMAIN MintedSeq : MintedSeq[i] \notin QueryVars
    /\ \A i, j \in DOMAIN MintedSeq : MintedSeq[i] = MintedSeq[j] => i = j

(* what a text says, its whitespace and the blanks inside PREFIX IRIs aside *)
Essence(text) ==
    LET words == SelectSeq(text, LAMBDA t : ~IsWs(t))
    IN  [i \in DOMAIN words |-> IF words[i].k = "prefix" THEN Pfx(FALSE) ELSE words[i]]

(* some fragment was built for the query *)
FragmentsBuilt ==
    \E r \in DOMAIN seglog :
        \/ \E k \in DOMAIN seglog[r].seg_text : seglog[r].seg_text[k] # <<>>
        \/ \E k \in DOMAIN seglog[r].bridge_text : seglog[r].bridge_text[k] # <<>>

(* C9: when the assembled output has different numbers of "{" and "}",       *)
(* rewrite returns the input query, its body untouched and its prologue      *)
(* changed only in whitespace and PREFIX IRIs, with nothing of the discarded *)
(* rewrite in it; in every other case the assembled output is returned.      *)
C9_FallbackOnlyOnImbalance ==
    (Done /\ runs # <<>>) =>
        IF NumLb(out) # NumRb(out)
        THEN /\ _split_prologue(result)[2] = body
             /\ Essence(_split_prologue(result)[1]) = Essence(prologue)
             /\ ~HasFederation(result)
        ELSE result = out

C9_Witness ==
    /\ Done /\ runs # <<>>
    /\ NumLb(out) # NumRb(out)
    /\ FragmentsBuilt
    /\ HasFederation(out)
    /\ \E i \in DOMAIN prologue : prologue[i] = Pfx(TRUE)
    /\ result # query

------------------------------------------------------------------------------
(* What cannot be normalized, told from the shape alone *)

UrlFields == {"service", "sparql", "url", "endpoint", "iri"}
IdFields == {"id", "name", "endpoint", "alias"}

HasStrField(d, fields) == \E f \in fields \cap DOMAIN d : IsNonEmptyStr(d[f])

(* a per-endpoint value that is None or not a string, dict or list *)
BadVal(val) == val.t \notin {"str", "dict", "list"}

(* a registry entry without id or without URL *)
BadEntry(v) == ~(v.t = "str" \/ (v.t = "dict" /\ HasStrField(v.d, UrlFields)))
BadItem(item) ==
    ~(item.t = "dict" /\ HasStrField(item.d, IdFields) /\ HasStrField(item.d, UrlFields))

(* the map below its wrappers, PDict(<<>>) when there is none *)
RootUnder(cands) ==
    IF cands.t # "dict" THEN PDict(<<>>)
    ELSE IF ODHas(cands.d, <<"mapping">>)
         THEN ODGet(ODGet(cands.d, <<"mapping">>).d, <<"selected">>)
         ELSE cands

(* the <<key, endpoint>> pairs of the raw map that cannot be normalized *)
BadPairsOf(cands) ==
    LET root == RootUnder(cands).d
    IN  UNION {IF root[i][2].t # "dict"
               THEN {<<NormalizeKey(root[i][1]), ep>> : ep \in {EpA, EpB}}
               ELSE {<<NormalizeKey(root[i][1]), root[i][2].d[j][1]>> :
                       j \in {j \in DOMAIN root[i][2].d : BadVal(root[i][2].d[j][2])}} :
               i \in DOMAIN root}

(* the ids of the raw registry whose entry cannot be normalized *)
BadIdsOf(eps) ==
    CASE eps.t = "dict" -> {eps.d[i][1] : i \in {i \in DOMAIN eps.d : BadEntry(eps.d[i][2])}}
      [] eps.t = "list" ->
            {eps.l[i].d.id.s : i \in {i \in DOMAIN eps.l :
                 BadItem(eps.l[i]) /\ eps.l[i].t = "dict" /\ "id" \in DOMAIN eps.l[i].d}}
      [] OTHER -> {EpA, EpB}

(* the raw arguments without the entries that cannot be normalized *)
CleanRoot(root) ==
    LET keep == SelectSeq(root.d, LAMBDA it : it[2].t = "dict")
    IN  PDict([i \in DOMAIN keep |->
                 <<keep[i][1],
                   PDict(SelectSeq(keep[i][2].d, LAMBDA it : ~BadVal(it[2])))>>])

CleanCands(cands) == CleanRoot(RootUnder(cands))

CleanEps(eps) ==
    CASE eps.t = "dict" -> PDict(SelectSeq(eps.d, LAMBDA it : ~BadEntry(it[2])))
      [] eps.t = "list" -> PList(SelectSeq(eps.l, LAMBDA item : ~BadItem(item)))
      [] OTHER -> PDict(<<>>)

(* C10: whatever the shape of the CandidateMap and of the EndpointRegistry,   *)
(* rewrite stays on its way to a return; an entry that cannot be normalized   *)
(* (a per-key value that is no dict, a per-endpoint value that is None or no  *)
(* string,                                                                    *)
(* dict or list, a registry entry without id or URL) is in neither canonical  *)
(* map, and rewrite returns what it returns for the arguments without those   *)
(* entries, so a triple that depends on them fares as one with no candidates. *)
C10_OddShapesIgnored ==
    /\ pc \in {"start", "runs", "check", "done"}
    /\ pc = "runs" => ri \in 1..(Len(runs) + 1)
    /\ pc # "start" =>
          /\ \A pr \in BadPairsOf(candidates) :
                ~(ODHas(cand_map, pr[1]) /\ ODHas(ODGet(cand_map, pr[1]), pr[2]))
          /\ \A id \in BadIdsOf(endpoints) : ~ODHas(ep_urls, id)
    /\ Done => result = rewrite(query, CleanCands(candidates), CleanEps(endpoints), NoFlips)

(* a rewritten query whose map and registry both held entries that cannot be *)
(* normalized, and that still got a SERVICE block                            *)
C10_Witness ==
    /\ Rewritten
    /\ BadPairsOf(candidates) # {}
    /\ BadIdsOf(endpoints) # {}
    /\ HasFederation(result)
    /\ \E m \in Range(AllMatches) : ServicesOf(m) = {}

------------------------------------------------------------------------------
(* the list form of what an endpoint offers, cut down to its head *)
HeadForm(val) ==
    CASE val.t = "str"  -> PList(<<PDict([predicate |-> val])>>)
      [] val.t = "dict" -> PList(<<val>>)
      [] val.t = "list" -> IF val.l = <<>> THEN val ELSE PList(<<val.l[1]>>)
      [] OTHER -> val

HeadPerKey(per_key) ==
    IF per_key.t # "dict" THEN per_key
    ELSE PDict([i \in DOMAIN per_key.d |->
                  <<per_key.d[i][1], HeadForm(per_key.d[i][2])>>])

(* the CandidateMap with every per-endpoint value in that form *)
HeadCands(cands) ==
    LET root == RootUnder(cands)
    IN  PDict([i \in DOMAIN root.d |-> <<root.d[i][1], HeadPerKey(root.d[i][2])>>])

(* the per-endpoint values of the raw map *)
RawVals(cands) ==
    LET root == RootUnder(cands).d
    IN  UNION {IF root[i][2].t # "dict" THEN {}
               ELSE {root[i][2].d[j][2] : j \in DOMAIN root[i][2].d} : i \in DOMAIN root}

(* C11: rewrite returns the same for a per-endpoint value that is the string *)
(* p, the object {predicate: p}, or a list whose head is {predicate: p}: it  *)
(* returns what it returns when every value is replaced by the one-element   *)
(* list of its head, so nothing below the head of a list is ever used, also  *)
(* when the head carries no predicate.                                       *)
C11_HeadIsAuthoritative ==
    Done => result = rewrite(query, HeadCands(candidates), endpoints, NoFlips)

(* rewritten with a list whose head has no predicate and whose second        *)
(* element has one: the triple of that key got no service                    *)
C11_Witness ==
    /\ Rewritten
    /\ HasFederation(result)
    /\ \E v \in RawVals(candidates) :
          /\ v.t = "list" /\ Len(v.l) = 2
          /\ v.l[1] = NoPredCand /\ v.l[2] = GoodCand(KeyP, EpA)
    /\ \E m \in Range(AllMatches) : m.pred = KeyP /\ ServicesOf(m) = {}

------------------------------------------------------------------------------
(* C12: every generic triple the scanner recognizes in the body is in exactly *)
(* one run and, once its run is segmented, in exactly one segment: the runs,  *)
(* none empty and none overlapping, are consecutive pieces of the list of     *)
(* matches, and the segments of a run, none empty, are consecutive pieces of  *)
(* the matches of the run.                                                    *)
C12_RunsAndSegmentsPartition ==
    /\ pc # "start" =>
          /\ AllMatches = GenMatches(body)
          /\ \A i, j \in DOMAIN AllMatches :
                i < j => AllMatches[i].end <= AllMatches[j].start
          /\ \A r \in DOMAIN runs :
                /\ runs[r].matches # <<>>
                /\ runs[r].start = runs[r].matches[1].start
                /\ r < Len(runs) => runs[r].end <= runs[r + 1].start
    /\ \A r \in DOMAIN seglog :
          LET sgs == seglog[r].segments
          IN  /\ Flatten([k \in DOMAIN sgs |-> sgs[k].matches]) = runs[r].matches
              /\ \A k \in DOMAIN sgs : sgs[k].matches # <<>>

(* two runs apart in the body, both segmented and both rewritten *)
C12_Witness ==
    /\ Rewritten
    /\ Len(runs) = 2 /\ Len(seglog) = 2
    /\ runs[1].end < runs[2].start
    /\ Count(result, "service") = 2

------------------------------------------------------------------------------
(* the segments the segmenter returned so far in this call *)
AllSegments == Flatten([r \in DOMAIN seglog |-> seglog[r].segments])

(* C13: a segment the segmenter returns has an empty services set only if    *)
(* every triple of the segment has no candidate endpoint.                    *)
C13_EmptyServicesOnlyWithoutCandidates ==
    \A k \in DOMAIN AllSegments :
        AllSegments[k].services = {}
        => \A i \in DOMAIN AllSegments[k].matches :
               ServicesOf(AllSegments[k].matches[i]) = {}

(* a segment of two triples without candidates, next to one with services *)
C13_Witness ==
    /\ Rewritten
    /\ \E k \in DOMAIN AllSegments :
          AllSegments[k].services = {} /\ Len(AllSegments[k].matches) = 2
    /\ \E k \in DOMAIN AllSegments : AllSegments[k].services # {}

------------------------------------------------------------------------------
(* the other call in flight has returned *)
ParkedDone == parked # <<>> /\ parked[4] = "done"

(* C14: rewrite keeps nothing from call to call: what a call returns is what *)
(* a call with these arguments returns when it is the only call the process  *)
(* ever makes, whatever calls came before it and whatever call ran in turns  *)
(* with it; two calls with the same arguments return the same.               *)
C14_NoStateBetweenCalls ==
    /\ Done => result = rewrite(query, candidates, endpoints, NoFlips)
    /\ ParkedDone => parked[16] = rewrite(parked[1], parked[2], parked[3], NoFlips)
    /\ (Done /\ ParkedDone /\ query = parked[1] /\ candidates = parked[2])
       => result = parked[16]

(* the third call of the process returned with an alias that an earlier call *)
(* had minted too, while the other caller's call, of the same arguments,     *)
(* has returned as well                                                      *)
C14_Witness ==
    /\ Rewritten /\ ParkedDone
    /\ calls = MaxCalls
    /\ minted # <<>> /\ minted[1] # <<>>
    /\ query = parked[1] /\ candidates = parked[2]
    /\ parked[14] = minted

------------------------------------------------------------------------------
(* the current segment of the segmenter when it comes to the i-th match of   *)
(* ms: the last segment of the matches before it                             *)
CurBefore(ms, i) ==
    LET sgs == _segment_by_service_chains(SubSeq(ms, 1, i - 1), cand_map, ep_urls, {}).segments
    IN  sgs[Len(sgs)]

(* the segmenter closed the current segment before the i-th match of run r *)
ClosedBefore(r, i) ==
    SegOf(seglog[r].segments, i) # SegOf(seglog[r].segments, i - 1)

(* C15: the segmenter closes the current segment, with a bridge, before the  *)
(* next triple m exactly when the segment shares a variable with m and       *)
(* either the segment's services have more than one member or they have no   *)
(* member in common with m's services; otherwise m joins the segment.        *)
C15_BridgeExactlyWhen ==
    \A r \in DOMAIN seglog : \A i \in 2..Len(runs[r].matches) :
        LET m   == runs[r].matches[i]
            cur == CurBefore(runs[r].matches, i)
            shared == cur.vars \cap _get_vars(m)
        IN  /\ Len(seglog[r].bridges) = Len(seglog[r].segments) - 1
            /\ ClosedBefore(r, i)
                  <=> \/ Cardinality(cur.services) > 1 /\ shared # {}
                      \/ cur.services \cap ServicesOf(m) = {} /\ shared # {}

------------------------------------------------------------------------------
(* the current segment once the segmenter has handled the i-th match of ms *)
CurAfter(ms, i) ==
    LET sgs == _segment_by_service_chains(SubSeq(ms, 1, i), cand_map, ep_urls, {}).segments
    IN  sgs[Len(sgs)]

(* C16: when a triple m joins the current segment, the segment's services   *)
(* become the services it had that m has too, so that every service of a    *)
(* segment can serve every triple of it, and its vars become the vars it had *)
(* together with m's.                                                        *)
C16_JoinNarrowsServices ==
    /\ \A r \in DOMAIN seglog : \A i \in 2..Len(runs[r].matches) :
          LET m   == runs[r].matches[i]
              cur == CurBefore(runs[r].matches, i)
          IN  ~ClosedBefore(r, i)
              => /\ CurAfter(runs[r].matches, i).services = cur.services \cap ServicesOf(m)
                 /\ CurAfter(runs[r].matches, i).vars = cur.vars \cup _get_vars(m)
    /\ \A k \in DOMAIN AllSegments : \A i \in DOMAIN AllSegments[k].matches :
          AllSegments[k].services \subseteq ServicesOf(AllSegments[k].matches[i])

------------------------------------------------------------------------------
(* the names of the variables in the triple lines of a fragment *)
LineNames(text) ==
    UNION {(IF text[q].ls.v THEN {text[q].ls.n} ELSE {})
           \cup (IF text[q].lo.v THEN {text[q].lo.n} ELSE {}) :
           q \in {p \in DOMAIN text : text[p].k = "line"}}

(* the variables the b-th segment of run r shares with the triple that seeds *)
(* the segment after it                                                      *)
SharedAt(r, b) ==
    seglog[r].segments[b].vars \cap _get_vars(seglog[r].segments[b + 1].matches[1])

(* the variables of the triples of the b-th segment of run r that have a    *)
(* candidate, the triples its fragment carries                               *)
KeptVars(r, b) ==
    UNION {_get_vars(seglog[r].segments[b].matches[i]) :
           i \in {j \in DOMAIN seglog[r].segments[b].matches :
                     ServicesOf(seglog[r].segments[b].matches[j]) # {}}}

(* the variable names of the generic triples of run r *)
RunVars(r) == UNION {_get_vars(runs[r].matches[i]) : i \in DOMAIN runs[r].matches}

EmittedName(r, b, v) ==
    IF v \in DOMAIN seglog[r].segments[b].renames
    THEN seglog[r].segments[b].renames[v] ELSE v

(* the pairs of names the bridges of run r connect *)
BridgePairs(r) ==
    UNION {{{seglog[r].bridges[b].mappings[i].left, seglog[r].bridges[b].mappings[i].right} :
                i \in DOMAIN seglog[r].bridges[b].mappings} : b \in DOMAIN seglog[r].bridges}

(* the names reachable from the names S over the pairs E *)
RECURSIVE Linked(_, _)
Linked(E, S) ==
    LET T == S \cup UNION {e \in E : e \cap S # {}}
    IN  IF T = S THEN S ELSE Linked(E, T)

(* two triples with candidates in different segments of run r share v *)
SharedAcross(r, b1, b2, v) ==
    /\ b1 \in DOMAIN seglog[r].segments /\ b2 \in DOMAIN seglog[r].segments
    /\ b1 < b2
    /\ v \in KeptVars(r, b1) \cap KeptVars(r, b2)

(* C18: within one run, when two generic triples that share a variable end  *)
(* up in different segments, adjacent or not, the fragments of the two       *)
(* segments emit the variable under different names, and bridges of the run  *)
(* connect the two names.                                                    *)
C18_NoPlainReuseAcrossSegments ==
    \A r \in DOMAIN seglog : \A b1, b2 \in DOMAIN seglog[r].segments :
        \A v \in RunVars(r) :
            SharedAcross(r, b1, b2, v) =>
                /\ EmittedName(r, b1, v) \in LineNames(seglog[r].seg_text[b1])
                /\ EmittedName(r, b2, v) \in LineNames(seglog[r].seg_text[b2])
                /\ EmittedName(r, b1, v) # EmittedName(r, b2, v)
                /\ EmittedName(r, b2, v) \in Linked(BridgePairs(r), {EmittedName(r, b1, v)})

(* l skos:exactMatch r, the identity test the bridges are described to try  *)
(* next to owl:sameAs                                                        *)
ExactMatch(l, r) == [k |-> "exactmatch", l |-> l, r |-> r]

(* the fragment text tests the pair mp with the test Test in both directions *)
TestsBothWays(text, Test(_, _), mp) ==
    /\ IsInfix(<<Lb, Sp, Test(mp.left, mp.right), Sp, Rb, Sp, Union, Sp,
                 Lb, Sp, Test(mp.right, mp.left), Sp, Rb>>, text)

(* C19: every bridge fragment that contains a SERVICE block tests each of   *)
(* its variable pairs with owl:sameAs and, as an alternative, with           *)
(* skos:exactMatch, each in both directions.                                 *)
C19_SameAsAndExactMatch ==
    \A r \in DOMAIN seglog : \A b \in DOMAIN seglog[r].bridges :
        "service" \in Kinds(seglog[r].bridge_text[b]) =>
            \A i \in DOMAIN seglog[r].bridges[b].mappings :
                /\ TestsBothWays(seglog[r].bridge_text[b], SameAs,
                                 seglog[r].bridges[b].mappings[i])
                /\ TestsBothWays(seglog[r].bridge_text[b], ExactMatch,
                                 seglog[r].bridges[b].mappings[i])

(* the number of groups open after the n-th token of text *)
BraceDepth(text, n) == NumLb(SubSeq(text, 1, n)) - NumRb(SubSeq(text, 1, n))

(* text is one group: its first token opens it and its last token closes it *)
OneGroup(text) ==
    /\ text # <<>>
    /\ text[1] = Lb /\ text[Len(text)] = Rb
    /\ \A n \in 1..(Len(text) - 1) : BraceDepth(text, n) >= 1

(* where the branches directly inside the group open and close *)
BranchOpens(text) == {p \in DOMAIN text : text[p] = Lb /\ BraceDepth(text, p) = 2}
BranchCloses(text) == {p \in DOMAIN text : text[p] = Rb /\ BraceDepth(text, p) = 1}

(* directly inside the group there are only branches, and UNION stands       *)
(* between each branch and the next                                          *)
BranchesInUnion(text) ==
    /\ \A p \in DOMAIN text :
          (BraceDepth(text, p) = 1 /\ p > 1 /\ p \notin BranchCloses(text)) =>
              text[p].k \in {"sp", "union"}
    /\ \A e \in BranchCloses(text) : \A o \in BranchOpens(text) :
          (e < o /\ ~ \E q \in BranchOpens(text) : e < q /\ q < o) =>
              Count(SubSeq(text, e, o), "union") = 1
    /\ \A q \in DOMAIN text : text[q].k = "union" /\ BraceDepth(text, q) = 1 =>
          /\ \E e \in BranchCloses(text) : e < q
          /\ \E o \in BranchOpens(text) : q < o

(* every SERVICE block of text is a branch of its own *)
ServiceBlocksAreBranches(text) ==
    /\ \A q \in DOMAIN text : text[q].k = "service" => BraceDepth(text, q) = 2
    /\ \A o \in BranchOpens(text) :
          LET e == SetMin({c \in BranchCloses(text) : c > o})
          IN  Count(SubSeq(text, o, e), "service") <= 1

(* the last branch of text holds BIND(left AS right) for every pair of mp    *)
(* and nothing else                                                          *)
EndsWithFallback(text, mp) ==
    /\ BranchOpens(text) # {} /\ BranchCloses(text) # {}
    /\ LET o == SetMax(BranchOpens(text))
           e == SetMax(BranchCloses(text))
           inner == SubSeq(text, o + 1, e - 1)
       IN  /\ o < e
           /\ Kinds(inner) \subseteq {"sp", "bind"}
           /\ \A i \in DOMAIN mp : \E q \in DOMAIN inner :
                 inner[q] = Bind(mp[i].left, mp[i].right)
           /\ Count(inner, "bind") = Len(mp)
           /\ Kinds(SubSeq(text, e + 1, Len(text) - 1)) \subseteq {"sp"}

(* C20: the fragment of every bridge with at least one variable pair ends    *)
(* with a fallback branch that holds BIND(leftAlias AS rightAlias) for every *)
(* pair of the bridge, and the per-service blocks and this fallback are the  *)
(* branches, combined with UNION, of one enclosing group.                    *)
C20_FallbackInOneUnionGroup ==
    \A r \in DOMAIN seglog : \A b \in DOMAIN seglog[r].bridges :
        seglog[r].bridges[b].mappings # <<>> =>
            /\ OneGroup(seglog[r].bridge_text[b])
            /\ BranchesInUnion(seglog[r].bridge_text[b])
            /\ ServiceBlocksAreBranches(seglog[r].bridge_text[b])
            /\ EndsWithFallback(seglog[r].bridge_text[b], seglog[r].bridges[b].mappings)

(* the services a bridge between segments with services L and R is to ask *)
PreferredServices(L, R) == IF L \cap R # {} THEN L \cap R ELSE L \cup R

(* the positions of text at which a SERVICE block starts, and the block that *)
(* starts at q: the tokens up to the brace that closes it                    *)
ServiceAt(text) == {q \in DOMAIN text : text[q].k = "service"}
BlockAt(text, q) ==
    SubSeq(text, q, SetMin({e \in q..Len(text) :
                               /\ text[e] = Rb
                               /\ BraceDepth(text, e) = BraceDepth(text, q)}))

(* C21: with L the services of the segment on the left of a bridge and R    *)
(* those of the segment on its right, the bridge fragment holds exactly one  *)
(* SERVICE block per service of L \cap R when that is not empty and one per  *)
(* service of L \cup R otherwise, however many variable pairs the bridge     *)
(* carries: every pair is tested inside each block.                          *)
C21_BridgeServices ==
    \A r \in DOMAIN seglog : \A b \in DOMAIN seglog[r].bridges :
        LET L    == seglog[r].segments[b].services
            R    == seglog[r].segments[b + 1].services
            mp   == seglog[r].bridges[b].mappings
            text == seglog[r].bridge_text[b]
        IN  /\ seglog[r].bridges[b].left_services = L
            /\ seglog[r].bridges[b].right_services = R
            /\ mp # <<>>
            /\ {text[q].url : q \in ServiceAt(text)} = {SvcUri(u) : u \in PreferredServices(L, R)}
            /\ Cardinality(ServiceAt(text)) = Cardinality(PreferredServices(L, R))
            /\ \A q \in ServiceAt(text) : \A i \in DOMAIN mp :
                  /\ TestsBothWays(BlockAt(text, q), SameAs, mp[i])
                  /\ Count(BlockAt(text, q), "sameas") = 2 * Len(mp)

(* one run with a bridge of two pairs and a bridge whose sides have some,    *)
(* not all, services in common                                               *)
C21_Witness ==
    \E r \in DOMAIN seglog : \E b1, b2 \in DOMAIN seglog[r].bridges :
        /\ Len(seglog[r].bridges[b1].mappings) = 2
        /\ Count(seglog[r].bridge_text[b1], "service") = 2
        /\ seglog[r].segments[b2].services \cap seglog[r].segments[b2 + 1].services # {}
        /\ seglog[r].segments[b2].services # seglog[r].segments[b2 + 1].services
        /\ Count(seglog[r].bridge_text[b2], "service") = 1

(* the predicates the endpoints behind service u offer for the key of m, the *)
(* head candidate of each                                                    *)
OfferedPreds(m, u) ==
    LET per_ep == PerEpOf(m.pred, cand_map)
    IN  {_pick_predicate_iri(per_ep[i][2][1]) :
            i \in {j \in DOMAIN per_ep :
                     /\ per_ep[j][2] # <<>>
                     /\ ServiceOf(per_ep[j][1], ep_urls) = u
                     /\ _pick_predicate_iri(per_ep[j][2][1]) # <<>>}}

(* the line tok says of triple m, under the names of segment seg, what an   *)
(* endpoint behind u offers for it                                           *)
LineSays(tok, m, seg, u) ==
    /\ tok.k = "line"
    /\ tok.ls = Renamed(m.subj, seg.renames)
    /\ tok.lo = Renamed(m.obj, seg.renames)
    /\ tok.pr \in OfferedPreds(m, u)

(* the triples of seg that service u serves, as positions of seg.matches *)
ServedBy(seg, u) == {i \in DOMAIN seg.matches : u \in ServicesOf(seg.matches[i])}

(* the lines of a block, in the order of the block *)
LinesOf(block) == SelectSeq(block, LAMBDA t : t.k = "line")

(* the first triple of seg, served by u, that the line tok is the line of;  *)
(* 0 when there is none                                                      *)
SourceOf(tok, seg, u) ==
    LET from == {i \in ServedBy(seg, u) : LineSays(tok, seg.matches[i], seg, u)}
    IN  IF from = {} THEN 0 ELSE SetMin(from)

(* C22: the fragment of a segment holds at most one SERVICE block per       *)
(* endpoint URL; the block of a URL holds a line for every triple of the     *)
(* segment that the endpoint serves and no other line, the lines in the      *)
(* order of the triples in the source, and no line twice.                    *)
C22_OneBlockPerEndpoint ==
    \A r \in DOMAIN seglog : \A b \in DOMAIN seglog[r].segments :
        LET seg  == seglog[r].segments[b]
            text == seglog[r].seg_text[b]
        IN  \A u \in {UrlA, UrlB} :
                LET at == {q \in ServiceAt(text) : text[q].url = SvcUri(u)}
                IN  /\ Cardinality(at) <= 1
                    /\ at # {} <=> ServedBy(seg, u) # {}
                    /\ \A q \in at :
                          LET lines == LinesOf(BlockAt(text, q))
                          IN  /\ \A i \in ServedBy(seg, u) : \E n \in DOMAIN lines :
                                    LineSays(lines[n], seg.matches[i], seg, u)
                              /\ \A n \in DOMAIN lines : SourceOf(lines[n], seg, u) # 0
                              /\ \A n, k \in DOMAIN lines :
                                    n < k => SourceOf(lines[n], seg, u) < SourceOf(lines[k], seg, u)

(* text is one SERVICE block and nothing around it *)
BareBlock(text) ==
    /\ text # <<>>
    /\ text[1].k = "service"
    /\ Count(text, "service") = 1
    /\ BlockAt(text, 1) = text

(* text is one group whose branches, combined with UNION, are one SERVICE    *)
(* block each                                                                *)
UnionOfBlocks(text) ==
    /\ OneGroup(text)
    /\ BranchesInUnion(text)
    /\ \A q \in ServiceAt(text) : BraceDepth(text, q) = 2
    /\ \A o \in BranchOpens(text) :
          LET e == SetMin({c \in BranchCloses(text) : c > o})
          IN  /\ Count(SubSeq(text, o, e), "service") = 1
              /\ Strip(SubSeq(text, o + 1, e - 1))[1].k = "service"
              /\ BlockAt(text, SkipWs(text, o + 1)) = Strip(SubSeq(text, o + 1, e - 1))

(* the part the fragment text of a segment adds to the output *)
EmittedAsIs(text) == \E i \in DOMAIN out_parts : out_parts[i] = text \o <<Sp>>

(* C23: a segment that resolves to exactly one endpoint is emitted as one   *)
(* SERVICE block with no group around it; a segment that resolves to several *)
(* endpoints is emitted as one UNION group with exactly one branch per       *)
(* endpoint, the branches in the order of the endpoint URLs.                 *)
C23_BareBlockOrUnionGroup ==
    \A r \in DOMAIN seglog : \A b \in DOMAIN seglog[r].segments :
        LET svcs == seglog[r].segments[b].services
            text == seglog[r].seg_text[b]
        IN  /\ Cardinality(svcs) = 1 => (BareBlock(text) /\ EmittedAsIs(text))
            /\ Cardinality(svcs) > 1 =>
                  /\ UnionOfBlocks(text)
                  /\ EmittedAsIs(text)
                  /\ Cardinality(ServiceAt(text)) = Cardinality(svcs)
                  /\ {text[q].url : q \in ServiceAt(text)} = {SvcUri(u) : u \in svcs}
                  /\ \A q1, q2 \in ServiceAt(text) :
                        (text[q1].url = SvcUri(UrlA) /\ text[q2].url = SvcUri(UrlB)) => q1 < q2

(* a run with a segment on two endpoints and a segment on one *)
C23_Witness ==
    \E r \in DOMAIN seglog : \E b1, b2 \in DOMAIN seglog[r].segments :
        /\ Cardinality(seglog[r].segments[b1].services) = 2
        /\ Count(seglog[r].seg_text[b1], "union") = 1
        /\ Cardinality(seglog[r].segments[b2].services) = 1
        /\ Count(seglog[r].seg_text[b2], "line") = 1
        /\ pc = "done" /\ Count(result, "service") >= 3

(* the fragments of run r in the order segment 1, bridge 1, segment 2, ...,  *)
(* the empty ones left out                                                   *)
Interleaved(r) ==
    [i \in 1..(2 * Len(seglog[r].segments) - 1) |->
        IF i % 2 = 1 THEN seglog[r].seg_text[(i + 1) \div 2]
        ELSE seglog[r].bridge_text[i \div 2]]

FragsOf(r) == SelectSeq(Interleaved(r), LAMBDA f : f # <<>>)

(* the text of the body between the run before run r and run r *)
GapBefore(r) == Slice(body, IF r = 1 THEN 1 ELSE runs[r - 1].end, runs[r].start)

(* what the runs handled so far are to have added to the output *)
PartsInOrder ==
    Flatten([r \in DOMAIN seglog |->
                <<GapBefore(r)>> \o [i \in DOMAIN FragsOf(r) |-> FragsOf(r)[i] \o <<Sp>>]])

(* the tokens that only fragments hold, in the order they have in text *)
FragmentTokens(text) ==
    SelectSeq(text, LAMBDA t : t.k \in {"service", "line", "sameas", "bind"})

(* C24: the span of each run is replaced by its fragments in the order      *)
(* segment 1, bridge 1, segment 2, bridge 2, ...: a run of n segments has    *)
(* n - 1 bridges, bridge i stands after the fragment of segment i and before *)
(* that of segment i + 1, and the runs follow each other in the output as in *)
(* the input.                                                                *)
C24_FragmentsInOrder ==
    /\ \A r \in DOMAIN seglog :
          /\ Len(seglog[r].bridges) = Len(seglog[r].segments) - 1
          /\ DOMAIN seglog[r].bridge_text = DOMAIN seglog[r].bridges
          /\ seglog[r].segments # <<>>
    /\ pc = "runs" => out_parts = PartsInOrder
    /\ pc \in {"check", "done"} /\ runs # <<>> =>
          out_parts = Append(PartsInOrder, SubSeqFrom(body, runs[Len(runs)].end))
    /\ Rewritten =>
          /\ FragmentTokens(result) = FragmentTokens(Flatten(PartsInOrder))
          /\ Count(result, "gen") = 0

(* a rewritten query of two runs, the first of two segments and a bridge *)
C24_Witness ==
    /\ Rewritten
    /\ Len(seglog) = 2
    /\ Len(seglog[1].segments) = 2
    /\ \A b \in DOMAIN seglog[1].seg_text : seglog[1].seg_text[b] # <<>>
    /\ seglog[1].bridge_text[1] # <<>>
    /\ seglog[2].seg_text[1] # <<>>
    /\ Count(result, "service") = 5

(* text ends with part *)
EndsWith(text, part) ==
    /\ Len(part) <= Len(text)
    /\ SubSeq(text, Len(text) - Len(part) + 1, Len(text)) = part

(* the body with the span of each run replaced by the fragments of the run  *)
(* and every token outside the runs as it is in the input                    *)
BodyWithRunsReplaced ==
    Flatten(Append(PartsInOrder, SubSeqFrom(body, runs[Len(runs)].end)))

(* C25: the text of the body outside the runs (before the first run,        *)
(* between two runs, after the last run) is in the output as it is in the    *)
(* input, token for token and in the same order: the output differs from the *)
(* input in the spans of the runs only.                                      *)
C25_OutsideVerbatim ==
    /\ Rewritten => EndsWith(result, BodyWithRunsReplaced)
    /\ (Done /\ runs = <<>>) => EndsWith(result, body)

(* the positions of the generic triples in the body *)
GenPositions == {q \in DOMAIN body : body[q].k = "gen"}

(* the last position of the generic triple at position q of the body, its   *)
(* closing dot included when it has one                                      *)
TripleEnd(q) ==
    IF body[q].dot THEN q
    ELSE LET after == {n \in (q + 1)..Len(body) : ~IsWs(body[n])}
         IN  IF after # {} /\ body[SetMin(after)].k = "dot" THEN SetMin(after) ELSE q

(* the text strictly between the i-th generic triple of the body and the next *)
TextBetween(i) ==
    SubSeq(body, TripleEnd(AllMatches[i].start) + 1, AllMatches[i + 1].start - 1)

WhitespaceOnly(text) == \A q \in DOMAIN text : IsWs(text[q])

(* C26: two generic triples that follow each other in the body are in the   *)
(* same run if and only if the text strictly between them is whitespace      *)
(* only; any other text between them ends the run, and a run reaches from    *)
(* its first triple to the end of its last.                                  *)
C26_RunsByWhitespace ==
    pc # "start" =>
        /\ {AllMatches[i].start : i \in DOMAIN AllMatches} = GenPositions
        /\ Len(AllMatches) = Cardinality(GenPositions)
        /\ \A i \in 1..(Len(AllMatches) - 1) :
              /\ AllMatches[i].start < AllMatches[i + 1].start
              /\ SegOf(runs, i) = SegOf(runs, i + 1) <=> WhitespaceOnly(TextBetween(i))
        /\ \A r \in DOMAIN runs :
              /\ runs[r].matches # <<>>
              /\ runs[r].start = runs[r].matches[1].start
              /\ runs[r].end = runs[r].matches[Len(runs[r].matches)].end
              /\ TripleEnd(runs[r].matches[Len(runs[r].matches)].start) < runs[r].end

(* two triples with a blank between them in one run, and a third one in a   *)
(* run of its own behind other text                                          *)
C26_Witness ==
    /\ pc = "runs"
    /\ Len(runs) = 2
    /\ Len(runs[1].matches) = 2
    /\ WhitespaceOnly(TextBetween(1)) /\ TextBetween(1) # <<>>
    /\ ~WhitespaceOnly(TextBetween(2))

(* the subject of the triple head that the continuation at position q of   *)
(* the body continues                                                        *)
HeadSubject(q) ==
    body[SetMax({h \in 1..(q - 1) : body[h].k \in {"gen", "pngen"}})].s

(* C27: a pair "; gen:X obj" after a triple head is matched as a generic    *)
(* triple with the subject of the head, and a generic triple whose subject   *)
(* is a prefixed name is matched like one whose subject is a variable or an  *)
(* <IRI>; what is matched is in a run and is rewritten like any other        *)
(* generic triple.                                                           *)
C27_ContinuationsAndPrefixedNames ==
    /\ pc # "start" =>
          /\ \A q \in {c \in DOMAIN body : body[c].k = "cont"} :
                \E i \in DOMAIN AllMatches :
                    /\ AllMatches[i].start <= q /\ q < AllMatches[i].end
                    /\ AllMatches[i].subj = HeadSubject(q)
                    /\ AllMatches[i].pred = body[q].p
                    /\ AllMatches[i].obj = body[q].o
          /\ \A q \in {c \in DOMAIN body : body[c].k = "pngen"} :
                \E i \in DOMAIN AllMatches :
                    /\ AllMatches[i].start = q
                    /\ AllMatches[i].pred = body[q].p
                    /\ AllMatches[i].obj = body[q].o
    /\ Rewritten => Kinds(result) \cap {"cont", "pngen"} = {}

(* C28: what rewrite returns is decided by its three arguments: a call in   *)
(* any interpreter process returns the string that the call with the same    *)
(* query, candidates and endpoints returns in a process that walks every set *)
(* of shared variables in the one order, the order of the variable pairs of  *)
(* a bridge included.                                                        *)
C28_Deterministic ==
    Done => result = rewrite(query, candidates, endpoints, NoFlips)

------------------------------------------------------------------------------
(* the steps the call has left at most: one per run still to rewrite, and   *)
(* the assembly and the return                                               *)
StepsLeft ==
    CASE pc = "start" -> Len(GenMatches(_split_prologue(query)[2])) + 3
      [] pc = "runs"  -> IF runs = <<>> THEN 1 ELSE (Len(runs) + 1 - ri) + 2
      [] pc = "check" -> 1
      [] OTHER        -> 0

(* the kinds of token a string of the program is made of *)
TokenKinds ==
    {"kw", "sp", "nl", "lbrace", "rbrace", "dot", "optional", "union", "text",
     "prefix", "gen", "cont", "pngen", "service", "line", "sameas", "bind"}

IsString(text) ==
    /\ DOMAIN text = 1..Len(text)
    /\ \A i \in DOMAIN text : text[i].k \in TokenKinds

(* the matches the loop over the runs has taken when it starts run r *)
TakenBefore(r) == Flatten([q \in 1..(r - 1) |-> runs[q].matches])

(* the aliases the segmenter minted for run r, with the number each ends in: *)
(* the k-th is base_Ln for a variable of the run and an n of 1..k, k - 1     *)
(* being the number of names in used when it is searched                     *)
SearchStops(r) ==
    \A k \in DOMAIN minted[r] :
        \E base \in RunVars(r), n \in 1..k :
            /\ minted[r][k] = AliasName(base, "L", n)
            /\ \A j \in 1..(n - 1) :
                  AliasName(base, "L", j) \in {minted[r][q] : q \in 1..(k - 1)}

LoopsAdvance ==
    /\ pc \in {"start", "runs", "check", "done"}
    /\ StepsLeft \in Nat
    /\ Done <=> StepsLeft = 0
    /\ pc # "start" =>
          /\ ri \in 1..(Len(runs) + 1)
          /\ Len(seglog) = ri - 1 /\ Len(minted) = ri - 1
          /\ Len(AllMatches) = Len(GenMatches(body))
          /\ \A i \in DOMAIN AllMatches : AllMatches[i].start < AllMatches[i].end
          /\ \A r \in DOMAIN runs :
                /\ Len(runs[r].matches) >= 1
                /\ Len(TakenBefore(r + 1)) > Len(TakenBefore(r))
                /\ runs[r].matches =
                      SubSeq(GenMatches(body), Len(TakenBefore(r)) + 1,
                             Len(TakenBefore(r + 1)))
    /\ \A r \in DOMAIN seglog :
          /\ Len(Flatten([k \in DOMAIN seglog[r].segments |->
                            seglog[r].segments[k].matches]))
                = Len(runs[r].matches)
          /\ Len(seglog[r].bridges) = Len(seglog[r].segments) - 1
          /\ SearchStops(r)
    /\ Done => IsString(result)

(* C29: every call of rewrite comes to its return and returns a string:     *)
(* every step of the call takes away one of the finitely many steps it has   *)
(* left, the loop over the matches starts every run behind the matches of    *)
(* the runs before it, the segmenter takes each match of a run once, the     *)
(* search of _fresh_var ends within as many names as used holds and one      *)
(* more, and no step is taken again.                                         *)
C29_Terminates ==
    [](LoopsAdvance) /\ [][StepsLeft' < StepsLeft]_vars

(* a call returned after the search for an alias went past a used name, in  *)
(* a run of several triples                                                  *)
C29_Witness ==
    /\ Rewritten
    /\ \E r \in DOMAIN minted : \E k \in DOMAIN minted[r] : \E base \in RunVars(r) :
          /\ minted[r][k] = AliasName(base, "L", 2)
          /\ Len(runs[r].matches) >= 3

------------------------------------------------------------------------------
(* the fragment of the k-th segment of run r is there and holds a SERVICE    *)
(* block in whose triples every name of names occurs                         *)
CarriedBy(r, k, names) ==
    /\ Count(seglog[r].seg_text[k], "service") >= 1
    /\ names \subseteq LineNames(seglog[r].seg_text[k])

(* C30: no bridge of the output is dangling: where the fragment of a bridge  *)
(* is emitted, the segment on its left has a SERVICE fragment in which every *)
(* left alias of the bridge occurs and the segment on its right has one in   *)
(* which every right-side variable of the bridge occurs.                     *)
C30_NoDanglingBridge ==
    \A r \in DOMAIN seglog : \A b \in DOMAIN seglog[r].bridges :
        LET mp == seglog[r].bridges[b].mappings
        IN  seglog[r].bridge_text[b] # <<>> =>
               /\ CarriedBy(r, b, {mp[i].left : i \in DOMAIN mp})
               /\ CarriedBy(r, b + 1, {mp[i].right : i \in DOMAIN mp})

====
